---- MODULE Spec2Model ----
(***************************************************************************)
(* A model of the C-Gate session of the cbus integration                   *)
(* (src/cgatesession.py) with the coordinator cache it feeds               *)
(* (src/coordinator.py).                                                   *)
(*                                                                         *)
(* Scheduling is that of one asyncio event loop: a coroutine runs without  *)
(* interruption from one suspension point to the next.  `cur` names the    *)
(* coroutine that is running; callbacks of the loop (data fed to a stream, *)
(* a timer, a completed connect) and resumptions happen only while no      *)
(* coroutine runs (cur = "none").                                          *)
(***************************************************************************)
EXTENDS Integers, Sequences, FiniteSets, TLC

\* ------------------------------------------------------------------ bounds
\* Faults of the environment in one run: a command connection dropped by the
\* gateway, a connect that fails, a stream that ends.
MaxFaults == 2
\* Faults up to which an attempt of the keepalive to reopen a channel may
\* fail: one more, so that an attempt can fail while both streaming
\* channels are absent.
MaxOpenFaults == 3
\* Lines without a status code the gateway sends in one run (before the
\* status line of a response, or on the event and load-change channels).
MaxExtra == 1
\* Rounds of the keepalive supervisor in one run.
MaxTicks == 1
\* Rounds of the keepalive supervisor in one run of the session without
\* set_group_level.
MaxRounds == 2
\* Calls of close that are counted.
MaxCloses == 2
\* Callbacks in one list of subscribers.
MaxCbs == 2
\* Callbacks registered at one time, over all the lists.
MaxRegs == 4
\* The levels set_group_level is called with: from -MaxBelow to
\* 255 + MaxAbove.
MaxBelow == 2
MaxAbove == 2
\* Lines in a response handed to get_group_level.
MaxResp == 3
\* The tokens of a line given to the classifier.
MaxLine == 4
\* The lines the gateway sends on a streaming channel while the order of
\* their processing is watched.
MaxSent == 2

\* ------------------------------------------------------------------ tasks
\* u1 calls send_command / get_group_level, u2 calls set_group_level (the
\* entity platforms), ka is the keepalive task of the session.
Users == {"u1", "u2"}
Tasks == Users \cup {"ka"}
Channels == {"event", "status"}
Addrs == {1, 2}
\* The callbacks that subscribe to updates.
Subs == {"s1", "s2"}

\* ------------------------------------------------------------------ lines
\* A line is a sequence of tokens <<kind, value>>:
\*   <<"code", n>>      a 3-digit number at the start of the line
\*   <<"addr", g>>      an address token //project/network/app/g
\*   <<"level", n>>     a token level=n
\*   <<"lighting", 0>>  the keyword lighting
\*   <<"action", k>>    on (1), off (0) or ramp (2) after lighting
\*   <<"state", k>>     state=on (1) or state=off (0)
\*   <<"word", 0>>      any other text
OkLine == << <<"code", 200>>, <<"word", 0>> >>
ErrLine == << <<"code", 401>>, <<"word", 0>> >>
EvtLine == << <<"lighting", 0>>, <<"action", 1>>, <<"addr", 1>> >>
JunkLine == << <<"word", 0>> >>
\* A line of a state dump, "701 //P/N/A/1: level=128".
DumpLine == << <<"code", 701>>, <<"addr", 1>>, <<"level", 128>> >>

\* What the gateway answers to a command: lines without a code, then one
\* status line.
ExtraLines == {EvtLine, JunkLine}
StatusLines == {OkLine, ErrLine}
\* What the gateway answers to a probe that polls the bus: dump lines, then
\* one status line.
PollLines == {DumpLine, OkLine}
\* What the gateway pushes on the event and load-change channels.
StreamLines == {EvtLine, JunkLine}
\* A line that is empty once decoded and stripped.
BlankLine == <<>>
\* A line with a level that is no C-Bus level, "//P/N/A/1 level=300".
WideLine == << <<"addr", 1>>, <<"level", 300>> >>
\* What a channel of the session without set_group_level carries.
ChannelLines == StreamLines \cup {BlankLine, WideLine}
\* The inputs lines come in on: the streaming channels and the command
\* connection.
Inputs == Channels \cup {"command"}
\* No line read yet.
NoRead == [ch |-> "none", l |-> <<>>, re |-> FALSE, n |-> 0]

NoUpdate == [a |-> 0, level |-> 0]
\* No emit since the subscribers last changed.
NoEmit == [u |-> NoUpdate, inv |-> <<>>]
\* No call of a function, and no result.
NoArg == [f |-> "none"]
NoOut == <<>>
\* No call of handle_group_update on its own yet.
NoCalls == [t |-> 0, a |-> 0, level |-> 0, inv |-> <<>>, after |-> <<>>]

\* CODE_RE = ^(\d{3})\s : three digits and a whitespace at the start of the
\* line; 0 when the line does not match.
CODE_RE(line) ==
    IF Len(line) >= 2 /\ line[1][1] = "code" THEN line[1][2] ELSE 0

\* The least index >= from of a token of the kind, or 0.
FirstIdx(line, k, from) ==
    LET S == {i \in from..Len(line) : line[i][1] = k}
    IN IF S = {} THEN 0 ELSE CHOOSE i \in S : \A j \in S : i <= j

\* GROUP_LEVEL_RE.search: the first address with a level token after it, and
\* the nearest such level token.
GROUP_LEVEL_RE(line) ==
    LET a == FirstIdx(line, "addr", 1)
        l == IF a = 0 THEN 0 ELSE FirstIdx(line, "level", a + 1)
    IN IF l = 0 THEN NoUpdate ELSE [a |-> line[a][2], level |-> line[l][2]]

\* LIGHTING_RE.search: lighting <action> <address>, and the level token
\* after it when there is one. Gives <<action, address, level or -1>>.
LIGHTING_RE(line) ==
    LET S == {i \in 1..(Len(line) - 2) :
                 /\ line[i][1] = "lighting"
                 /\ line[i + 1][1] = "action"
                 /\ line[i + 2][1] = "addr"}
        i == CHOOSE x \in S : \A y \in S : x <= y
        l == FirstIdx(line, "level", i + 3)
    IN IF S = {} THEN <<>>
       ELSE <<line[i + 1][2], line[i + 2][2], IF l = 0 THEN -1 ELSE line[l][2]>>

\* The action keyword of a lighting line is on (1), off (0) or ramp (2) in
\* lower case, and 11, 10 or 12 when it is written in capitals (ON, OFF,
\* RAMP); LIGHTING_RE ignores the case.
\* A classifier that takes the keyword as it is written.
LowerNot(k) == k

\* action.lower().
Lower(k) == k % 10

\* Rule 2 of _handle_event_line, for the match of LIGHTING_RE: 255 for on,
\* 0 for off, and for ramp the level of the match, 0 when it has none.
LightingUpdate(ml) ==
    [a |-> ml[2],
     level |-> IF Lower(ml[1]) = 1 THEN 255
               ELSE IF Lower(ml[1]) = 0 THEN 0
               ELSE IF ml[3] # -1 THEN ml[3] ELSE 0]

\* A classifier that tries the lighting rule before the level rule.
handle_event_line_lighting_first(line) ==
    LET m == GROUP_LEVEL_RE(line)
        ml == LIGHTING_RE(line)
        a == FirstIdx(line, "addr", 1)
    IN IF ml # <<>> THEN LightingUpdate(ml)
       ELSE IF m # NoUpdate THEN m
       ELSE IF \E i \in 1..Len(line) : line[i] = <<"state", 1>> THEN
            IF a # 0 THEN [a |-> line[a][2], level |-> 255] ELSE NoUpdate
       ELSE IF \E i \in 1..Len(line) : line[i] = <<"state", 0>> THEN
            IF a # 0 THEN [a |-> line[a][2], level |-> 0] ELSE NoUpdate
       ELSE NoUpdate

\* _handle_event_line: the update the line yields, NoUpdate when none.
handle_event_line(line) ==
    LET m == GROUP_LEVEL_RE(line)
        ml == LIGHTING_RE(line)
        a == FirstIdx(line, "addr", 1)
    IN IF m # NoUpdate THEN m
       ELSE IF ml # <<>> THEN LightingUpdate(ml)
       ELSE IF \E i \in 1..Len(line) : line[i] = <<"state", 1>> THEN
            IF a # 0 THEN [a |-> line[a][2], level |-> 255] ELSE NoUpdate
       ELSE IF \E i \in 1..Len(line) : line[i] = <<"state", 0>> THEN
            IF a # 0 THEN [a |-> line[a][2], level |-> 0] ELSE NoUpdate
       ELSE NoUpdate

\* _emit_group_update with the coordinator as primary sink
\* (CBusCoordinator.handle_group_update): the cache after the update.
emit_group_update(gl, u) ==
    IF u = NoUpdate THEN gl ELSE [gl EXCEPT ![u.a] = u.level]

\* ------------------------------------------------------------------ state
VARIABLES
    connected,      \* async_connect has completed
    closed,         \* CGateSession._closed
    cmdH,           \* _cmd_reader/_cmd_writer: 0 = None, else a connection
    conns,          \* the command connections some handle or reader refers to
    cmd_lock,       \* _cmd_lock: its holder, or "free"
    cur,            \* the running coroutine, or "none"
    pc,             \* where each task is suspended or running
    kind,           \* the entry point of the task's call
    attempt,        \* _send_and_wait's attempt
    lines,          \* _send_and_wait_once's lines, each with the command it answers
    rconn,          \* the connection whose readline the task is suspended in
    result,         \* how the call ended
    ret,            \* the lines returned, or the line the error carries
    tx,             \* history: writes of the command on an open transport
    txLast,         \* history: the attempt of the last such write
    reconn,         \* history: calls of _reconnect_cmd
    fails,          \* history: connection-level failures of the call
    nread,          \* history: lines taken from the stream in this attempt
    emitted,        \* history: updates emitted in this attempt
    startedClosed,  \* history: the call was made after close
    io,             \* history: the call wrote to, read from or opened a socket
    evH,            \* _event_reader/_status_reader: "absent", "open", "closed"
    evTask,         \* _event_task/_status_task: "none", "running", "done", "cancelled"
    group_levels,   \* CBusCoordinator.group_levels (-1: no entry)
    faults,         \* history: faults of the environment so far
    extras,         \* history: lines without a status code sent so far
    ticks,          \* history: rounds of the keepalive so far
    connErr,        \* history: the last async_connect raised
    primary,        \* CGateSession._group_update_callback is set
    group_cbs,      \* CGateSession._group_callbacks, by address
    global_cbs,     \* CGateSession._global_callbacks
    coord_cbs,      \* CBusCoordinator._callbacks, by address
    raising,        \* the callbacks that raised in that emit
    log,            \* history: the last emit since the subscribers changed:
                    \* its update and the callbacks it invoked, in order
    lastLevel,      \* history: the level of the last update of each address
    reopened,       \* history: _keepalive has reopened the channel
    lastRead,       \* history: the last line a stream reader read
    readers,        \* history: the reader tasks of a channel still running
    closes,         \* history: calls of close so far, up to MaxCloses
    inbox,          \* the lines a stream reader has buffered, by channel
    sent,           \* history: the lines the gateway sent, by channel
    trace,          \* history: classifications and callback calls, by channel
    opn,            \* where the opening of a channel is, by input
    greet,          \* the channel was opened with a greeting line read
    calls,          \* history: the last handle_group_update called on its
                    \* own: its address and level, the calls of callbacks
                    \* it made, the callbacks of the address when it
                    \* returned, and a bit that each call flips
    arg,            \* the arguments of a call of a function of the session
    out             \* what the call gave, <<>> before it

sessVars == <<connected, closed, cmdH, conns, cmd_lock, cur>>
taskVars == <<pc, kind, attempt, lines, rconn, result, ret>>
histVars == <<tx, txLast, reconn, fails, nread, emitted, startedClosed, io>>
chanVars == <<evH, evTask>>
envVars == <<faults, extras, ticks>>
pureVars == <<arg, out>>
routerVars == <<primary, group_cbs, global_cbs, coord_cbs, raising, log,
                lastLevel, calls>>
streamHist == <<reopened, lastRead, readers>>
orderVars == <<inbox, sent, trace>>
openVars == <<opn, greet>>
ioVars == <<orderVars, openVars>>
auxRest == <<connErr, pureVars, routerVars, streamHist, closes>>
auxVars == <<auxRest, ioVars>>
vars == <<sessVars, taskVars, histVars, chanVars, group_levels, envVars,
          auxVars>>

\* A connection no handle and no suspended reader refers to is forgotten,
\* and its place is used again: one place for the handle and one for each
\* task suspended on an older connection are enough.
ConnIds == 1..(Cardinality(Tasks) + 1)
NoConn == [buf |-> <<>>, eof |-> FALSE, open |-> FALSE, waiter |-> "none",
           pend |-> <<>>]
NewConn == [buf |-> <<>>, eof |-> FALSE, open |-> TRUE, waiter |-> "none",
            pend |-> <<>>]
Referenced(c, h, p, rc) ==
    c = h \/ \E t \in Tasks : p[t] \in {"rwait", "rready"} /\ rc[t] = c
Canon(cs, h, p, rc) ==
    [c \in ConnIds |-> IF Referenced(c, h, p, rc) THEN cs[c] ELSE NoConn]
FreeConn ==
    CHOOSE c \in ConnIds :
        /\ conns[c] = NoConn
        /\ \A d \in ConnIds : conns[d] = NoConn => c <= d

InitState ==
    /\ connected = FALSE
    /\ closed = FALSE
    /\ cmdH = 0
    /\ conns = [c \in ConnIds |-> NoConn]
    /\ cmd_lock = "free"
    /\ cur = "none"
    /\ pc = [t \in Tasks |-> "idle"]
    /\ kind = [t \in Tasks |-> "none"]
    /\ attempt = [t \in Tasks |-> 0]
    /\ lines = [t \in Tasks |-> <<>>]
    /\ rconn = [t \in Tasks |-> 0]
    /\ result = [t \in Tasks |-> "none"]
    /\ ret = [t \in Tasks |-> <<>>]
    /\ tx = [t \in Tasks |-> 0]
    /\ txLast = [t \in Tasks |-> 0]
    /\ reconn = [t \in Tasks |-> 0]
    /\ fails = [t \in Tasks |-> 0]
    /\ nread = [t \in Tasks |-> 0]
    /\ emitted = [t \in Tasks |-> <<>>]
    /\ startedClosed = [t \in Tasks |-> FALSE]
    /\ io = [t \in Tasks |-> FALSE]
    /\ evH = [ch \in Channels |-> "absent"]
    /\ evTask = [ch \in Channels |-> "none"]
    /\ group_levels = [a \in Addrs |-> -1]
    /\ faults = 0
    /\ extras = 0
    /\ ticks = 0
    /\ connErr = FALSE
    /\ primary = TRUE
    /\ group_cbs = [a \in Addrs |-> <<>>]
    /\ global_cbs = <<>>
    /\ coord_cbs = [a \in Addrs |-> <<>>]
    /\ raising = {}
    /\ log = NoEmit
    /\ lastLevel = [a \in Addrs |-> -1]
    /\ reopened = [ch \in Channels |-> FALSE]
    /\ lastRead = NoRead
    /\ readers = [ch \in Channels |-> 0]
    /\ closes = 0
    /\ inbox = [ch \in Channels |-> <<>>]
    /\ sent = [c \in Inputs |-> <<>>]
    /\ trace = [c \in Inputs |-> <<>>]
    /\ opn = [c \in Inputs |-> "idle"]
    /\ greet = [c \in Inputs |-> FALSE]
    /\ calls = NoCalls

\* The state after construction, no function called.
Init ==
    /\ InitState
    /\ arg = NoArg
    /\ out = NoOut

\* ------------------------------------------------------------- connecting
\* An async_connect that gives up when any of the three channels fails.
ConnectRaisesOnAnyChannel(okCmd, okEv, okSt) == ~okCmd \/ ~okEv \/ ~okSt

\* async_connect raises: _open_command_connection lets the error of
\* open_connection through, _open_with_timeout catches every one.
ConnectRaises(okCmd, okEv, okSt) == ~okCmd

\* The body of async_connect: the command channel must open
\* (_open_command_connection raises otherwise); the event and load-change
\* channels may stay absent (_open_with_timeout returns None, None). Then
\* the three tasks start; a reader whose channel is absent returns at once.
\* Nothing in it looks at the state of the session.
connect_channels(okCmd, okEv, okSt) ==
    /\ cur = "none"
    /\ LET n == (IF okEv THEN 0 ELSE 1) + (IF okSt THEN 0 ELSE 1)
       IN /\ okCmd => faults + n <= MaxFaults
          /\ faults' = IF okCmd THEN faults + n ELSE faults
    /\ closed' = FALSE
    /\ connErr' = ConnectRaises(okCmd, okEv, okSt)
    /\ cmdH' = IF okCmd THEN FreeConn ELSE cmdH
    /\ conns' = IF okCmd THEN [conns EXCEPT ![FreeConn] = NewConn] ELSE conns
    /\ evH' = IF okCmd
              THEN [ch \in Channels |->
                      IF (ch = "event" /\ okEv) \/ (ch = "status" /\ okSt)
                      THEN "open" ELSE "absent"]
              ELSE evH
    /\ IF ConnectRaises(okCmd, okEv, okSt)
       THEN UNCHANGED <<connected, evTask, pc>>
       ELSE /\ connected' = TRUE
            /\ evTask' = [ch \in Channels |->
                            IF evH'[ch] = "open" THEN "running" ELSE "done"]
            /\ pc' = [pc EXCEPT !["ka"] = "sleep"]
    /\ UNCHANGED <<cmd_lock, cur, kind, attempt, lines, rconn, result, ret,
                   histVars, group_levels, extras, ticks, routerVars,
                   reopened, lastRead, closes, pureVars, ioVars>>

\* The reader tasks async_connect creates (the task of a channel that did
\* not open returns at once and is not counted).
TrackConnect(okCmd, okEv, okSt) ==
    readers' = [ch \in Channels |->
                  IF ~ConnectRaises(okCmd, okEv, okSt) /\ evH'[ch] = "open"
                  THEN readers[ch] + 1 ELSE readers[ch]]

\* async_connect on a session that was created and is not connected yet.
async_connect(okCmd, okEv, okSt) ==
    /\ ~connected
    /\ connect_channels(okCmd, okEv, okSt)

\* async_connect on a session that close was called on.
async_connect_closed(okCmd, okEv, okSt) ==
    /\ connected
    /\ closed
    /\ connect_channels(okCmd, okEv, okSt)

\* --------------------------------------------------------- command pipe
\* retries of _send_and_wait: send_command passes none (the default, 0),
\* set_group_level passes retries=1.
Retries(k) == IF k = "set" THEN 1 ELSE 0

\* A handler that gives up one attempt sooner.
RetryExhaustedSooner(a, retries) == a > retries

\* _send_and_wait: `if attempt > retries + 1: raise`.
RetryExhausted(a, retries) == a > retries + 1

\* A read loop that hands no line to _handle_event_line.
IsEmbeddedNever(line) == FALSE

\* _send_and_wait_once: `if not mcode:` the line goes to _handle_event_line.
IsEmbedded(line) == CODE_RE(line) = 0

\* _send_and_wait_once: `first = lines[0]`, and the 400+ test on it.
ProtocolError(lns) == CODE_RE(lns[1].l) >= 400

\* A return of the terminal line alone.
SendResultTerminalOnly(lns) == <<lns[Len(lns)].l>>

\* _send_and_wait_once: `return lines`.
SendResult(lns) == [i \in 1..Len(lns) |-> lns[i].l]

\* A transport closed (writer.close(), or the gateway dropping the
\* connection): the reader gets end-of-stream and its waiter is woken.
Shut(r) == [r EXCEPT !.open = FALSE, !.eof = TRUE, !.waiter = "none",
                     !.pend = <<>>]
WakePc(p, cs, c) ==
    IF c # 0 /\ cs[c].waiter # "none"
    THEN [p EXCEPT ![cs[c].waiter] = "rready"] ELSE p

\* A lock that stays with the task that leaves with it.
ReleasedNever(t, lk) == lk

\* `async with self._cmd_lock:` on its way out, by return or by exception:
\* the lock is released when the task holds it (set_group_level holds none).
Released(t, lk) == IF lk = t THEN "free" ELSE lk

\* The call of task t ends, with a value or an exception: `async with
\* self._cmd_lock` releases the lock when t holds it. The task still runs:
\* the value goes to the caller, the keepalive goes on in its loop.
Finish(t, res, r, lk) ==
    /\ result' = [result EXCEPT ![t] = res]
    /\ ret' = [ret EXCEPT ![t] = r]
    /\ cmd_lock' = Released(t, lk)
    /\ pc' = [pc EXCEPT ![t] = IF t = "ka" THEN "probed" ELSE "done"]
    /\ cur' = t

\* _send_and_wait's handler of ConnectionError/OSError in attempt a of a
\* call of kind k, with _reconnect_cmd: close the writer, drop both handles,
\* await the open. h, cs, lk: the handle, the connections and the lock.
ConnFail(t, k, a, h, cs, lk) ==
    /\ fails' = [fails EXCEPT ![t] = @ + 1]
    /\ rconn' = [rconn EXCEPT ![t] = 0]
    /\ IF RetryExhausted(a, Retries(k))
       THEN /\ Finish(t, "conn_error", <<>>, lk)
            /\ cmdH' = h
            /\ conns' = Canon(cs, h, pc', rconn')
            /\ UNCHANGED reconn
       ELSE /\ reconn' = [reconn EXCEPT ![t] = @ + 1]
            /\ cmdH' = 0
            /\ pc' = [WakePc(pc, cs, h) EXCEPT ![t] = "opening"]
            /\ cur' = "none"
            /\ cmd_lock' = lk
            /\ conns' = Canon(IF h = 0 THEN cs ELSE [cs EXCEPT ![h] = Shut(@)],
                              0, pc', rconn')
            /\ UNCHANGED <<result, ret>>

\* StreamReader.readline finds no line buffered on connection c:
\* end-of-stream (b"", a ConnectionError), else RuntimeError when another
\* coroutine already waits on the reader, else suspend as its waiter.
WaitForData(t, k, a, c, h, cs, lk) ==
    IF cs[c].eof
    THEN ConnFail(t, k, a, h, cs, lk)
    ELSE IF cs[c].waiter # "none"
    THEN /\ Finish(t, "runtime_error", <<>>, lk)
         /\ rconn' = [rconn EXCEPT ![t] = 0]
         /\ cmdH' = h
         /\ conns' = Canon(cs, h, pc', rconn')
         /\ UNCHANGED <<reconn, fails>>
    ELSE /\ conns' = [cs EXCEPT ![c].waiter = t]
         /\ rconn' = [rconn EXCEPT ![t] = c]
         /\ pc' = [pc EXCEPT ![t] = "rwait"]
         /\ cur' = "none"
         /\ cmdH' = h
         /\ cmd_lock' = lk
         /\ UNCHANGED <<result, ret, reconn, fails>>

\* One round of _send_and_wait's loop, up to the first readline of
\* _send_and_wait_once: no handle, or a transport already closed (drain
\* raises), is a ConnectionError, and nothing reaches a socket unless the
\* handler goes on to open one; otherwise the command is written and the
\* first line awaited.
send_and_wait(t, k, h, cs, lk) ==
    LET a == attempt[t] + 1
        cs1 == [cs EXCEPT ![h].pend = IF cs[h].eof THEN @ ELSE Append(@, t)]
    IN /\ attempt' = [attempt EXCEPT ![t] = a]
       /\ lines' = [lines EXCEPT ![t] = <<>>]
       /\ nread' = [nread EXCEPT ![t] = 0]
       /\ emitted' = [emitted EXCEPT ![t] = <<>>]
       /\ IF h = 0 \/ ~cs[h].open
          THEN /\ ConnFail(t, k, a, h, cs, lk)
               /\ io' = [io EXCEPT ![t] = @ \/ ~RetryExhausted(a, Retries(k))]
               /\ UNCHANGED <<tx, txLast>>
          ELSE /\ tx' = [tx EXCEPT ![t] = @ + 1]
               /\ txLast' = [txLast EXCEPT ![t] = a]
               /\ io' = [io EXCEPT ![t] = TRUE]
               /\ IF cs1[h].buf # <<>>
                  THEN /\ pc' = [pc EXCEPT ![t] = "read"]
                       /\ cur' = t
                       /\ cmdH' = h
                       /\ conns' = cs1
                       /\ cmd_lock' = lk
                       /\ UNCHANGED <<rconn, result, ret, reconn, fails>>
                  ELSE WaitForData(t, k, a, h, h, cs1, lk)

\* The body of the read loop for the line at the head of connection c.
TakeLine(t, c) ==
    LET rec == Head(conns[c].buf)
        lns == Append(lines[t], rec)
        u == handle_event_line(rec.l)
    IN /\ lines' = [lines EXCEPT ![t] = lns]
       /\ nread' = [nread EXCEPT ![t] = @ + 1]
       /\ rconn' = [rconn EXCEPT ![t] = 0]
       /\ IF IsEmbedded(rec.l)
          THEN /\ group_levels' = emit_group_update(group_levels, u)
               /\ emitted' = [emitted EXCEPT ![t] =
                                IF u = NoUpdate THEN @ ELSE Append(@, u)]
               /\ pc' = [pc EXCEPT ![t] = "read"]
               /\ cur' = t
               /\ UNCHANGED <<cmd_lock, result, ret>>
          ELSE /\ IF ProtocolError(lns)
                  THEN Finish(t, "protocol_error", <<lns[1].l>>, cmd_lock)
                  ELSE Finish(t, "ok", SendResult(lns), cmd_lock)
               /\ UNCHANGED <<group_levels, emitted>>
       /\ conns' = Canon([conns EXCEPT ![c].buf = Tail(@)], cmdH, pc', rconn')
       /\ UNCHANGED <<cmdH, reconn, fails>>

\* readline on connection c, inside the read loop.
ReadFrom(t, c) ==
    /\ io' = [io EXCEPT ![t] = TRUE]
    /\ IF conns[c].buf # <<>>
       THEN TakeLine(t, c)
       ELSE /\ WaitForData(t, kind[t], attempt[t], c, cmdH, conns, cmd_lock)
            /\ UNCHANGED <<lines, nread, emitted, group_levels>>
    /\ UNCHANGED <<connected, closed, kind, attempt, tx, txLast,
                   startedClosed, chanVars, envVars>>

\* A caller awaits send_command(cmd), directly or through get_group_level
\* (the keepalive with "noop"): the closed test, the lock, _send_and_wait.
\* asyncio.Lock is fair: a caller queues behind the waiters there are.
SendCommandEntry(t, k) ==
    /\ kind' = [kind EXCEPT ![t] = k]
    /\ startedClosed' = [startedClosed EXCEPT ![t] = closed]
    /\ IF closed
       THEN /\ Finish(t, "closed_error", <<>>, cmd_lock)
            /\ UNCHANGED <<cmdH, conns, rconn, attempt, lines, tx, txLast,
                           reconn, fails, nread, emitted, io>>
       ELSE IF cmd_lock # "free" \/ \E u \in Tasks : pc[u] = "lockwait"
       THEN /\ pc' = [pc EXCEPT ![t] = "lockwait"]
            /\ UNCHANGED <<cmdH, conns, rconn, attempt, lines, tx, txLast,
                           reconn, fails, nread, emitted, io, cmd_lock, cur,
                           result, ret>>
       ELSE send_and_wait(t, k, cmdH, conns, t)
    /\ ticks' = IF t = "ka" THEN ticks + 1 ELSE ticks
    /\ UNCHANGED <<connected, closed, chanVars, group_levels, faults, extras>>

send_command(t) ==
    /\ UNCHANGED auxVars
    /\ connected
    /\ cur = "none"
    /\ pc[t] = "idle"
    /\ SendCommandEntry(t, "send")

\* A caller awaits set_group_level: no closed test, no lock, retries=1.
set_group_level(t) ==
    /\ UNCHANGED auxVars
    /\ connected
    /\ cur = "none"
    /\ pc[t] = "idle"
    /\ kind' = [kind EXCEPT ![t] = "set"]
    /\ startedClosed' = [startedClosed EXCEPT ![t] = closed]
    /\ send_and_wait(t, "set", cmdH, conns, cmd_lock)
    /\ UNCHANGED <<connected, closed, chanVars, group_levels, envVars>>

\* The locals and the history of a call, as the next call finds them.
ResetCall(t) ==
    /\ attempt' = [attempt EXCEPT ![t] = 0]
    /\ lines' = [lines EXCEPT ![t] = <<>>]
    /\ tx' = [tx EXCEPT ![t] = 0]
    /\ txLast' = [txLast EXCEPT ![t] = 0]
    /\ reconn' = [reconn EXCEPT ![t] = 0]
    /\ fails' = [fails EXCEPT ![t] = 0]
    /\ nread' = [nread EXCEPT ![t] = 0]
    /\ emitted' = [emitted EXCEPT ![t] = <<>>]
    /\ io' = [io EXCEPT ![t] = FALSE]
    /\ result' = [result EXCEPT ![t] = "none"]
    /\ ret' = [ret EXCEPT ![t] = <<>>]
    /\ startedClosed' = [startedClosed EXCEPT ![t] = FALSE]

\* The caller has the value or the exception of its call: the locals of
\* the call are gone.
return_call(t) ==
    /\ UNCHANGED auxVars
    /\ cur = t
    /\ pc[t] = "done"
    /\ cur' = "none"
    /\ pc' = [pc EXCEPT ![t] = "returned"]
    /\ ResetCall(t)
    /\ kind' = [kind EXCEPT ![t] = "none"]
    /\ UNCHANGED <<connected, closed, cmdH, conns, cmd_lock, rconn, chanVars,
                   group_levels, envVars>>

\* A waiter of _cmd_lock gets the lock and goes on into _send_and_wait.
acquire_lock(t) ==
    /\ UNCHANGED auxVars
    /\ cur = "none"
    /\ pc[t] = "lockwait"
    /\ cmd_lock = "free"
    /\ send_and_wait(t, kind[t], cmdH, conns, t)
    /\ UNCHANGED <<connected, closed, kind, startedClosed, chanVars,
                   group_levels, envVars>>

\* `raw = await self._cmd_reader.readline()` by the running task: the
\* attribute is read anew each round, and is None while another task
\* reconnects (AttributeError).
read_line(t) ==
    /\ UNCHANGED auxRest
    /\ cur = t
    /\ pc[t] = "read"
    /\ IF cmdH = 0
       THEN /\ Finish(t, "attr_error", <<>>, cmd_lock)
            /\ UNCHANGED <<connected, closed, cmdH, conns, kind,
                           attempt, lines, rconn, histVars, chanVars,
                           group_levels, envVars>>
       ELSE ReadFrom(t, cmdH)

\* A task woken in readline goes on, on the reader it was suspended in.
resume_read(t) ==
    /\ UNCHANGED auxRest
    /\ cur = "none"
    /\ pc[t] = "rready"
    /\ ReadFrom(t, rconn[t])

\* The OSError of open_connection inside the handler of _send_and_wait:
\* nothing catches it there, and it leaves the call of t.
ReopenError(t) == "conn_error"

\* _open_command_connection in _reconnect_cmd completes: with a connection
\* (and its greeting), the loop of _send_and_wait goes on; an OSError raised
\* in the handler leaves _send_and_wait.
open_command_connection(t, ok) ==
    /\ UNCHANGED auxVars
    /\ cur = "none"
    /\ pc[t] = "opening"
    /\ ~ok => faults < MaxFaults
    /\ faults' = IF ok THEN faults ELSE faults + 1
    /\ IF ok
       THEN send_and_wait(t, kind[t], FreeConn,
                          [conns EXCEPT ![FreeConn] = NewConn], cmd_lock)
       ELSE /\ Finish(t, ReopenError(t), <<>>, cmd_lock)
            /\ io' = [io EXCEPT ![t] = TRUE]
            /\ UNCHANGED <<cmdH, conns, rconn, attempt, lines, tx, txLast,
                           reconn, fails, nread, emitted>>
    /\ UNCHANGED <<connected, closed, kind, startedClosed, chanVars,
                   group_levels, extras, ticks>>

\* ------------------------------------------------------------- gateway
\* The gateway answers the oldest unanswered command of a connection with
\* one more line; a line of StatusLines ends its answer.
gateway_line(c, l) ==
    /\ UNCHANGED auxRest
    /\ cur = "none"
    /\ conns[c].open /\ ~conns[c].eof
    /\ conns[c].pend # <<>>
    /\ l \notin StatusLines => extras < MaxExtra
    /\ extras' = IF l \notin StatusLines THEN extras + 1 ELSE extras
    /\ conns' = [conns EXCEPT
                   ![c].buf = Append(@, [l |-> l, for |-> Head(conns[c].pend)]),
                   ![c].pend = IF l \in StatusLines THEN Tail(@) ELSE @,
                   ![c].waiter = "none"]
    /\ pc' = WakePc(pc, conns, c)
    /\ UNCHANGED <<connected, closed, cmdH, cmd_lock, cur, kind,
                   attempt, lines, rconn, result, ret, histVars, chanVars,
                   group_levels, faults, ticks>>

\* The gateway drops a command connection instead of answering.
gateway_drop(c) ==
    /\ UNCHANGED auxVars
    /\ cur = "none"
    /\ conns[c].open /\ ~conns[c].eof
    /\ conns[c].pend # <<>>
    /\ faults < MaxFaults
    /\ faults' = faults + 1
    /\ conns' = [conns EXCEPT ![c] = [Shut(@) EXCEPT !.open = TRUE]]
    /\ pc' = WakePc(pc, conns, c)
    /\ UNCHANGED <<connected, closed, cmdH, cmd_lock, cur, kind,
                   attempt, lines, rconn, result, ret, histVars, chanVars,
                   group_levels, extras, ticks>>

\* ----------------------------------------------------------- keepalive
\* _keepalive: the sleep is over, `await self.send_command("noop")`; n
\* bounds the rounds of the run.
keepalive_tick(n) ==
    /\ UNCHANGED auxVars
    /\ cur = "none"
    /\ pc["ka"] = "sleep"
    /\ ticks < n
    /\ SendCommandEntry("ka", "noop")

\* A keepalive that returns at the end of its round.
KeepaliveReturns(p) == [p EXCEPT !["ka"] = "stopped"]

\* `while not self._closed:` at the end of a round of _keepalive.
KeepaliveLoop(p) ==
    [p EXCEPT !["ka"] = IF closed THEN "stopped" ELSE "sleep"]

\* A supervisor that reopens a channel at every round.
DeadOrAlive(h) == TRUE

\* `self._event_reader is None`, `self._status_reader is None`: the
\* channel has no handle, and _keepalive opens it again.
Dead(h) == h = "absent"

\* The round of _keepalive after the probe, up to its next suspension: a
\* failed probe is logged and `continue` skips the rest of the round; after
\* a good one an absent event or load-change reader is reopened.
keepalive_after_probe ==
    /\ UNCHANGED auxVars
    /\ cur = "ka"
    /\ pc["ka"] = "probed"
    /\ cur' = "none"
    /\ pc' = IF result["ka"] # "ok" THEN KeepaliveLoop(pc)
             ELSE IF Dead(evH["event"]) /\ ~closed
             THEN [pc EXCEPT !["ka"] = "evopen"]
             ELSE IF Dead(evH["status"]) /\ ~closed
             THEN [pc EXCEPT !["ka"] = "stopen"]
             ELSE KeepaliveLoop(pc)
    /\ ResetCall("ka")
    /\ UNCHANGED <<connected, closed, cmdH, conns, cmd_lock, kind, rconn,
                   chanVars, group_levels, envVars>>

\* The history of the stream readers (reopened, lastRead) is written by
\* TrackOpen and TrackRead, which a next-state relation joins to the three
\* actions below, or left as it is.
\* _keepalive's open of the channel has completed.
TrackOpen(ch, ok) ==
    /\ reopened' = [reopened EXCEPT ![ch] = @ \/ ok]
    /\ readers' = [readers EXCEPT ![ch] = IF evTask'[ch] = "running" /\ ok
                                          THEN @ + 1 ELSE @]
    /\ UNCHANGED lastRead

\* The reader of the channel has read the line.
TrackRead(ch, l) ==
    /\ lastRead' = [ch |-> ch, l |-> l, re |-> reopened[ch],
                    n |-> extras + 1]
    /\ UNCHANGED <<reopened, readers>>

\* A supervisor that reopens a channel and starts no reader on it.
ReaderNotStarted(ok, old) == old

\* The reader task of a channel after _keepalive tried to reopen it:
\* create_task(_read_*_stream()) when the open gave a reader.
ReaderAfterOpen(ok, old) == IF ok THEN "running" ELSE old

\* A round that a failed reopening of the event channel ends.
AfterEventOpenOrSkip(ok, h, p) ==
    IF ok /\ Dead(h) /\ ~closed
    THEN [p EXCEPT !["ka"] = "stopen"]
    ELSE KeepaliveLoop(p)

\* The round of _keepalive after step 2, whatever its outcome: step 3
\* looks at the load-change channel, whose handle is h, and opens it when
\* it is None and the session is not closed.
AfterEventOpen(ok, h, p) ==
    IF Dead(h) /\ ~closed
    THEN [p EXCEPT !["ka"] = "stopen"]
    ELSE KeepaliveLoop(p)

\* _open_event_connection in _keepalive completes (_open_with_timeout
\* returns the streams, or None, None): a fresh reader task is created for
\* an open channel; then the load-change channel is looked at.
keepalive_open_event(ok) ==
    /\ UNCHANGED <<connErr, pureVars, ioVars, routerVars, closes>>
    /\ cur = "none"
    /\ pc["ka"] = "evopen"
    /\ ~ok => faults < MaxOpenFaults
    /\ faults' = IF ok THEN faults ELSE faults + 1
    /\ evH' = [evH EXCEPT !["event"] = IF ok THEN "open" ELSE "absent"]
    /\ evTask' = [evTask EXCEPT !["event"] = ReaderAfterOpen(ok, @)]
    /\ pc' = AfterEventOpen(ok, evH["status"], pc)
    /\ UNCHANGED <<connected, closed, cmdH, conns, cmd_lock, cur, kind,
                   attempt, lines, rconn, result, ret, histVars,
                   group_levels, extras, ticks>>

\* _open_status_connection in _keepalive completes.
keepalive_open_status(ok) ==
    /\ UNCHANGED <<connErr, pureVars, ioVars, routerVars, closes>>
    /\ cur = "none"
    /\ pc["ka"] = "stopen"
    /\ ~ok => faults < MaxOpenFaults
    /\ faults' = IF ok THEN faults ELSE faults + 1
    /\ evH' = [evH EXCEPT !["status"] = IF ok THEN "open" ELSE "absent"]
    /\ evTask' = [evTask EXCEPT !["status"] = ReaderAfterOpen(ok, @)]
    /\ pc' = KeepaliveLoop(pc)
    /\ UNCHANGED <<connected, closed, cmdH, conns, cmd_lock, cur, kind,
                   attempt, lines, rconn, result, ret, histVars,
                   group_levels, extras, ticks>>

\* ------------------------------------------------------- stream readers
\* _read_event_stream / _read_status_stream: a line arrives and the reader
\* hands it to _handle_event_line.
read_stream_line(ch, l) ==
    /\ UNCHANGED <<connErr, pureVars, ioVars, routerVars, closes>>
    /\ cur = "none"
    /\ evTask[ch] = "running"
    /\ extras < MaxExtra
    /\ extras' = extras + 1
    /\ group_levels' = IF l = BlankLine THEN group_levels
                       ELSE emit_group_update(group_levels,
                                              handle_event_line(l))
    /\ UNCHANGED <<sessVars, taskVars, histVars, chanVars, faults, ticks>>

\* A reader that returns at the end of its stream and leaves the handle.
EndedHandleKept(h) == h

\* The handle of a channel whose reader met the end of the stream or an
\* error: self._event_reader = None, self._event_writer = None.
EndedHandle(h) == "absent"

\* The stream ends (or the read raises): the reader drops both handles of
\* its channel and returns.
read_stream_end(ch) ==
    /\ UNCHANGED <<connErr, pureVars, ioVars, routerVars, reopened, lastRead,
                   closes>>
    /\ cur = "none"
    /\ evTask[ch] = "running"
    /\ faults < MaxFaults
    /\ faults' = faults + 1
    /\ evH' = [evH EXCEPT ![ch] = EndedHandle(@)]
    /\ evTask' = [evTask EXCEPT ![ch] = "done"]
    /\ UNCHANGED <<sessVars, taskVars, histVars, group_levels, extras, ticks>>

\* The reader of the channel has returned.
TrackEnd(ch) == readers' = [readers EXCEPT ![ch] = @ - 1]

\* ---------------------------------------------------------------- close
\* Task.cancel() on the keepalive: CancelledError at its suspension point
\* leaves readline (the reader's waiter is cleared) and `async with`
\* (the lock is released).
KaCancelled == pc["ka"] \notin {"idle", "stopped", "cancelled"}

\* A close that forgets the handle of a writer it finds closed.
ClosedHandleDropped(h) == IF h = "open" THEN "closed" ELSE "absent"

\* The handle of a channel after close: w.close() on each writer that is
\* set; the handle stays, and closing a closed writer changes nothing.
ClosedHandle(h) == IF h = "open" THEN "closed" ELSE h

\* The history of close (closes) is written by TrackClose, which a
\* next-state relation joins to close, or left as it is.
\* t.cancel() reaches the reader task the session holds of each channel.
TrackClose ==
    /\ closes' = IF closes < MaxCloses THEN closes + 1 ELSE closes
    /\ readers' = [ch \in Channels |->
                     IF evTask[ch] = "running" THEN readers[ch] - 1
                     ELSE readers[ch]]

\* close: set _closed, close the three writers (the handles stay), cancel
\* the three tasks.
close ==
    /\ UNCHANGED <<connErr, pureVars, ioVars, routerVars, reopened, lastRead>>
    /\ connected
    /\ cur = "none"
    /\ closed' = TRUE
    /\ pc' = LET p == IF cmdH # 0 /\ conns[cmdH].waiter # "ka"
                      THEN WakePc(pc, conns, cmdH) ELSE pc
             IN IF KaCancelled THEN [p EXCEPT !["ka"] = "cancelled"] ELSE p
    /\ cmd_lock' = IF KaCancelled /\ cmd_lock = "ka" THEN "free" ELSE cmd_lock
    /\ rconn' = [rconn EXCEPT !["ka"] = 0]
    /\ conns' = Canon([c \in ConnIds |->
                         IF c = cmdH THEN Shut(conns[c])
                         ELSE IF conns[c].waiter = "ka" /\ KaCancelled
                         THEN [conns[c] EXCEPT !.waiter = "none"]
                         ELSE conns[c]],
                      cmdH, pc', rconn')
    /\ evH' = [ch \in Channels |-> ClosedHandle(evH[ch])]
    /\ evTask' = [ch \in Channels |->
                    IF evTask[ch] = "running" THEN "cancelled" ELSE evTask[ch]]
    /\ IF KaCancelled
       THEN ResetCall("ka")
       ELSE UNCHANGED <<attempt, lines, tx, txLast, reconn, fails, nread,
                        emitted, io, result, ret, startedClosed>>
    /\ UNCHANGED <<connected, cmdH, cur, kind, group_levels, envVars>>

\* --------------------------------------------------------------- router
\* async_setup_entry connects the session before it creates the coordinator
\* and loads the platforms, so callbacks are registered on a connected
\* session.
\* Lines of the load-change channel that yield an update: lighting on of
\* each address, and lighting ramp to level 128 of address 1.
UpdateLines ==
    {<< <<"lighting", 0>>, <<"action", 1>>, <<"addr", a>> >> : a \in Addrs}
    \cup {<< <<"lighting", 0>>, <<"action", 2>>, <<"addr", 1>>,
             <<"level", 128>> >>}

\* The callbacks that may raise.
Raisers == {"s1"}

\* The callbacks that can be registered as global ones: a subscriber, or
\* handle_global_event of async_setup_entry, which passes the update to
\* CBusCoordinator.handle_group_update.
GlobalCbs == Subs \cup {"hge"}

\* A removal that takes every entry that is x.
RemoveEvery(seq, x) == SelectSeq(seq, LAMBDA y : y # x)

\* list.remove(x): the list without the first x, the list itself when x is
\* not in it (ValueError, which unregister_callback swallows).
RemoveFirst(seq, x) ==
    LET S == {i \in 1..Len(seq) : seq[i] = x}
        k == CHOOSE i \in S : \A j \in S : i <= j
    IN IF S = {} THEN seq
       ELSE [i \in 1..(Len(seq) - 1) |-> IF i < k THEN seq[i] ELSE seq[i + 1]]

\* A loop over callbacks that the first exception ends.
DeliverUntilRaise(cbs, R) ==
    LET S == {i \in 1..Len(cbs) : cbs[i] \in R}
    IN IF S = {} THEN cbs
       ELSE SubSeq(cbs, 1, CHOOSE i \in S : \A j \in S : i <= j)

\* The callbacks a loop over cbs invokes when those in R raise: each call
\* is inside try/except Exception, so all of them.
DeliverAll(cbs, R) == cbs

\* The invocations of the callbacks, as entries of the log.
Tag(by, a, cbs) ==
    [i \in 1..Len(cbs) |-> [by |-> by, key |-> a, cb |-> cbs[i]]]

\* CBusCoordinator.handle_group_update: the callbacks of the address, from
\* a copy of the list.
CoordLog(a, R) == Tag("coord", a, DeliverAll(coord_cbs[a], R))

\* The global callbacks in turn; handle_global_event calls
\* handle_group_update.
RECURSIVE GlobalLog(_, _, _)
GlobalLog(cbs, a, R) ==
    IF cbs = <<>> THEN <<>>
    ELSE Tag("global", a, <<Head(cbs)>>)
         \o (IF Head(cbs) = "hge" THEN CoordLog(a, R) ELSE <<>>)
         \o GlobalLog(Tail(cbs), a, R)

\* An emit that serves the global callbacks before the per-group ones.
EmitOrderGlobalsFirst(p, g, gl) == p \o gl \o g

\* The three steps of _emit_group_update in their order.
EmitOrder(p, g, gl) == p \o g \o gl

\* _emit_group_update for an update of address a: the primary callback
\* (the coordinator) when it is set, the per-group callbacks of the key,
\* the global callbacks.
EmitLog(a, R) ==
    EmitOrder(
        IF primary
        THEN Tag("primary", a, <<"coordinator">>) \o CoordLog(a, R)
        ELSE <<>>,
        Tag("group", a, DeliverAll(group_cbs[a], R)),
        GlobalLog(DeliverAll(global_cbs, R), a, R))

\* A cache that keeps the first level it saw of an address.
ApplyLevelOnce(gl, a, level) ==
    IF gl[a] = -1 THEN [gl EXCEPT ![a] = level] ELSE gl

\* handle_group_update: self.group_levels[key] = int(level).
ApplyLevel(gl, a, level) == [gl EXCEPT ![a] = level]

\* light.py _current_level: group_levels.get(key, 0).
lookup(a) == IF group_levels[a] = -1 THEN 0 ELSE group_levels[a]

\* handle_group_update runs in the emit: as the primary callback or
\* through handle_global_event.
Applied ==
    primary \/ \E i \in 1..Len(global_cbs) : global_cbs[i] = "hge"

\* The callbacks registered, over all the lists.
Regs ==
    LET n1 == Len(group_cbs[1]) + Len(group_cbs[2])
        n2 == Len(coord_cbs[1]) + Len(coord_cbs[2])
    IN n1 + n2 + Len(global_cbs)

\* What the session and its tasks do not touch in a step of the router.
restVars == <<sessVars, taskVars, histVars, chanVars, envVars, connErr,
             streamHist, closes, calls, pureVars, ioVars>>

\* set_group_update_callback(cb): the coordinator (CBusCoordinator.__init__)
\* or None.
set_group_update_callback(b) ==
    /\ cur = "none"
    /\ connected
    /\ primary # b
    /\ primary' = b
    /\ log' = NoEmit
    /\ raising' = {}
    /\ UNCHANGED <<restVars, group_levels, group_cbs, global_cbs, coord_cbs,
                   lastLevel>>

\* register_group_callback: append to the list of the key.
register_group_callback(a, s) ==
    /\ cur = "none"
    /\ connected
    /\ Regs < MaxRegs
    /\ Len(group_cbs[a]) < MaxCbs
    /\ group_cbs' = [group_cbs EXCEPT ![a] = Append(@, s)]
    /\ log' = NoEmit
    /\ raising' = {}
    /\ UNCHANGED <<restVars, group_levels, primary, global_cbs, coord_cbs,
                   lastLevel>>

\* register_global_callback: append.
register_global_callback(g) ==
    /\ cur = "none"
    /\ connected
    /\ Regs < MaxRegs
    /\ Len(global_cbs) < MaxCbs
    /\ global_cbs' = Append(global_cbs, g)
    /\ log' = NoEmit
    /\ raising' = {}
    /\ UNCHANGED <<restVars, group_levels, primary, group_cbs, coord_cbs,
                   lastLevel>>

\* CBusCoordinator.register_callback: append to the list of the key.
register_callback(a, s) ==
    /\ cur = "none"
    /\ connected
    /\ Regs < MaxRegs
    /\ Len(coord_cbs[a]) < MaxCbs
    /\ coord_cbs' = [coord_cbs EXCEPT ![a] = Append(@, s)]
    /\ log' = NoEmit
    /\ raising' = {}
    /\ UNCHANGED <<restVars, group_levels, primary, group_cbs, global_cbs,
                   lastLevel>>

\* CBusCoordinator.unregister_callback: remove the first entry that is the
\* callback; nothing when there is none.
unregister_callback(a, s) ==
    /\ cur = "none"
    /\ connected
    /\ coord_cbs' = [coord_cbs EXCEPT ![a] = RemoveFirst(@, s)]
    /\ log' = NoEmit
    /\ raising' = {}
    /\ UNCHANGED <<restVars, group_levels, primary, group_cbs, global_cbs,
                   lastLevel>>

\* A reader reads a line that yields an update and _handle_event_line emits
\* it while the callbacks in R raise. No exception leaves
\* _emit_group_update, so the reader goes on with its loop.
read_stream_update(ch, l, R) ==
    /\ cur = "none"
    /\ evTask[ch] = "running"
    /\ LET u == handle_event_line(l)
       IN /\ u # NoUpdate
          /\ log' = [u |-> u, inv |-> EmitLog(u.a, R)]
          /\ raising' = R
          /\ group_levels' = IF Applied
                             THEN ApplyLevel(group_levels, u.a, u.level)
                             ELSE group_levels
          /\ lastLevel' = IF Applied
                          THEN [lastLevel EXCEPT ![u.a] = u.level]
                          ELSE lastLevel
    /\ UNCHANGED <<restVars, primary, group_cbs, global_cbs, coord_cbs>>

\* ---------------------------------------------------------------- order
\* The lines the gateway pushes on a streaming channel while the order of
\* their processing is watched: lighting on and lighting ramp to 128 of
\* address 1, and an empty line.
RampLine == << <<"lighting", 0>>, <<"action", 2>>, <<"addr", 1>>,
               <<"level", 128>> >>
OrderLines == {EvtLine, RampLine, BlankLine}

\* No line has come in on any input.
NoTraffic == \A c \in Inputs : sent[c] = <<>>

\* A reader that takes the newest line of its buffer.
NextIdxNewest(buf) == Len(buf)

\* `raw = await reader.readline()`: the StreamReader gives the oldest line
\* it has buffered.
NextIdx(buf) == 1

\* The buffer without its line at place k.
Without(buf, k) ==
    [i \in 1..(Len(buf) - 1) |-> IF i < k THEN buf[i] ELSE buf[i + 1]]

\* The line goes to _handle_event_line: on a streaming channel when it is
\* not empty (`if not line: continue`), in a command response when it has
\* no code.
Classifies(c, l) == IF c = "command" THEN IsEmbedded(l) ELSE l # BlankLine

\* What the processing of a line does, in its order: the line is
\* classified, and when it yields an update _emit_group_update calls the
\* callbacks, one after the other, before it returns.
EventsOf(c, l) ==
    LET u == handle_event_line(l)
        inv == IF u = NoUpdate THEN <<>> ELSE EmitLog(u.a, {})
    IN IF ~Classifies(c, l) THEN <<>>
       ELSE <<[e |-> "classify", l |-> l, by |-> "", cb |-> ""]>>
            \o [i \in 1..Len(inv) |->
                  [e |-> "call", l |-> l, by |-> inv[i].by, cb |-> inv[i].cb]]

\* The gateway writes a line on a streaming channel; the StreamReader of
\* the channel buffers it.
stream_receive(ch, l) ==
    /\ cur = "none"
    /\ evH[ch] = "open"
    /\ evTask[ch] = "running"
    /\ Len(sent[ch]) < MaxSent
    /\ inbox' = [inbox EXCEPT ![ch] = Append(@, l)]
    /\ sent' = [sent EXCEPT ![ch] = Append(@, l)]
    /\ UNCHANGED <<sessVars, taskVars, histVars, chanVars, group_levels,
                   envVars, auxRest, trace, openVars>>

\* One round of the loop of _read_event_stream / _read_status_stream:
\* readline gives a buffered line, and the line is handled before the
\* reader awaits the next one.
read_stream_next(ch) ==
    /\ cur = "none"
    /\ evTask[ch] = "running"
    /\ inbox[ch] # <<>>
    /\ LET k == NextIdx(inbox[ch])
           l == inbox[ch][k]
           u == handle_event_line(l)
       IN /\ inbox' = [inbox EXCEPT ![ch] = Without(@, k)]
          /\ trace' = [trace EXCEPT ![ch] = @ \o EventsOf(ch, l)]
          /\ IF Classifies(ch, l) /\ u # NoUpdate
             THEN /\ log' = [u |-> u, inv |-> EmitLog(u.a, {})]
                  /\ raising' = {}
                  /\ group_levels' = IF Applied
                                     THEN ApplyLevel(group_levels, u.a, u.level)
                                     ELSE group_levels
                  /\ lastLevel' = IF Applied
                                  THEN [lastLevel EXCEPT ![u.a] = u.level]
                                  ELSE lastLevel
             ELSE UNCHANGED <<log, raising, group_levels, lastLevel>>
    /\ UNCHANGED <<sessVars, taskVars, histVars, chanVars, envVars, connErr,
                   pureVars, streamHist, closes, primary, group_cbs,
                   global_cbs, coord_cbs, calls, sent, openVars>>

\* The gateway has written a line of a response on the command connection.
TrackSent(l) ==
    /\ sent' = [sent EXCEPT !["command"] = Append(@, l)]
    /\ UNCHANGED <<inbox, trace, openVars>>

\* The read loop of _send_and_wait_once has taken a line of the response
\* (or the step took none).
TrackTake(t) ==
    /\ trace' = IF Len(lines'[t]) = Len(lines[t]) + 1
                THEN [trace EXCEPT !["command"] =
                        @ \o EventsOf("command", lines'[t][Len(lines'[t])].l)]
                ELSE trace
    /\ UNCHANGED <<inbox, sent, openVars>>

\* -------------------------------------------------------------- opening
\* The opening of one channel, step by step: the caller awaits
\* open_connection ("connecting"), the gateway accepts and the caller
\* awaits the greeting line ("greeting"), the handles are set ("open"), or
\* the connection failed ("failed").
\* What is left of the state in a step of an opening.
openRest == <<sessVars, taskVars, histVars, chanVars, group_levels, envVars,
              auxRest, orderVars>>

\* The read of the greeting line has a timeout: _open_with_timeout reads
\* it inside asyncio.wait_for(reader.readline(), timeout=1.0) and takes
\* every exception for "no greeting"; _open_command_connection awaits
\* reader.readline() as it is.
GreetingTimeout(c) == c # "command"

\* _open_command_connection, _open_event_connection or
\* _open_status_connection is awaited.
open_start(c) ==
    /\ opn[c] = "idle"
    /\ opn' = [opn EXCEPT ![c] = "connecting"]
    /\ UNCHANGED <<openRest, greet>>

\* The gateway accepts the connection: open_connection returns, and the
\* caller awaits the greeting.
gateway_accept(c) ==
    /\ opn[c] = "connecting"
    /\ opn' = [opn EXCEPT ![c] = "greeting"]
    /\ UNCHANGED <<openRest, greet>>

\* The connection is refused or, on a streaming channel, not made within
\* 3 s.
connect_fails(c) ==
    /\ opn[c] = "connecting"
    /\ opn' = [opn EXCEPT ![c] = "failed"]
    /\ UNCHANGED <<openRest, greet>>

\* The gateway sends a greeting line: readline returns it and the open
\* completes.
greeting_line(c) ==
    /\ opn[c] = "greeting"
    /\ opn' = [opn EXCEPT ![c] = "open"]
    /\ greet' = [greet EXCEPT ![c] = TRUE]
    /\ UNCHANGED openRest

\* The timeout of the read of the greeting expires: the open completes
\* without a greeting.
greeting_timeout(c) ==
    /\ opn[c] = "greeting"
    /\ GreetingTimeout(c)
    /\ opn' = [opn EXCEPT ![c] = "open"]
    /\ greet' = [greet EXCEPT ![c] = FALSE]
    /\ UNCHANGED openRest

\* The channel is lost, or its failed open is over: it can be opened again.
channel_lost(c) ==
    /\ opn[c] \in {"open", "failed"}
    /\ opn' = [opn EXCEPT ![c] = "idle"]
    /\ greet' = [greet EXCEPT ![c] = FALSE]
    /\ UNCHANGED openRest

\* ---------------------------------------------------------- coordinator
\* The levels handle_group_update is called with.
Levels == {0, 200}

\* What a callback does when it is invoked, besides taking the level:
\* nothing, raise, unregister itself, unregister the other callback, or
\* register the other callback when it is not registered for the address.
Behaviours == {"nop", "raise", "unreg_self", "unreg_other", "reg_other"}

\* What the two callbacks do in one notification: at most one of them does
\* more than take the level.
BehSets == {beh \in [Subs -> Behaviours] : \E s \in Subs : beh[s] = "nop"}

\* The other one of the two callbacks.
Other(cb) == CHOOSE s \in Subs : s # cb

\* The registry after the callback, invoked for address a, has run.
Act(reg, a, cb, b) ==
    IF b = "unreg_self" THEN [reg EXCEPT ![a] = RemoveFirst(@, cb)]
    ELSE IF b = "unreg_other"
    THEN [reg EXCEPT ![a] = RemoveFirst(@, Other(cb))]
    ELSE IF b = "reg_other" /\ \A i \in 1..Len(reg[a]) : reg[a][i] # Other(cb)
    THEN [reg EXCEPT ![a] = Append(@, Other(cb))]
    ELSE reg

\* A lookup that takes the callbacks of every address.
SubscribersOfAll(reg, a) == reg[1] \o reg[2]

\* self._callbacks.get(key, []): the callbacks registered for the address.
Subscribers(reg, a) == reg[a]

\* A dispatch loop that iterates the list of the registry itself.
CurrentLive(snapshot, live) == live

\* The list the dispatch loop of handle_group_update iterates:
\* list(self._callbacks.get(key, [])), a copy made before the first call.
Current(snapshot, live) == snapshot

\* The dispatch loop from position i on: the calls it makes, each with the
\* level, and the registry after them. A callback that raises is caught
\* and the loop goes on.
RECURSIVE Notify(_, _, _, _, _, _)
Notify(i, snapshot, reg, a, level, beh) ==
    LET L == Current(snapshot, reg[a])
    IN IF i > Len(L) THEN [inv |-> <<>>, reg |-> reg]
       ELSE LET rest == Notify(i + 1, snapshot,
                               Act(reg, a, L[i], beh[L[i]]), a, level, beh)
            IN [inv |-> <<[cb |-> L[i], a |-> a, level |-> level]>>
                        \o rest.inv,
                reg |-> rest.reg]

\* CBusCoordinator.handle_group_update(…, level) for address a: the cache
\* is written, then the callbacks of the address are notified.
handle_group_update(a, level, beh) ==
    /\ cur = "none"
    /\ connected
    /\ LET r == Notify(1, Subscribers(coord_cbs, a), coord_cbs, a, level, beh)
       IN /\ \A x \in Addrs : Len(r.reg[x]) <= MaxCbs
          /\ coord_cbs' = r.reg
          /\ calls' = [t |-> 1 - calls.t, a |-> a, level |-> level,
                       inv |-> r.inv, after |-> r.reg[a]]
    /\ group_levels' = ApplyLevel(group_levels, a, level)
    /\ lastLevel' = [lastLevel EXCEPT ![a] = level]
    /\ UNCHANGED <<sessVars, taskVars, histVars, chanVars, envVars, connErr,
                   streamHist, closes, ioVars, primary, group_cbs, global_cbs,
                   raising, log, pureVars>>

\* ------------------------------------------------------------- entities
\* fan.py: LEVEL_MED = 163.
LEVEL_MED == 163

\* What get_group_level gives an entity that is added: a level, or -1 for
\* None and for a call that raises.
FetchedLevels == Levels \cup {-1}

\* CBusLight.async_added_to_hass (CBusFan and CBusSwitch alike) of the
\* entity s of address a: the level get_group_level returns is written into
\* the cache of the coordinator, then the callback of the entity is
\* registered.
light_async_added_to_hass(a, s, lvl) ==
    /\ cur = "none"
    /\ connected
    /\ Regs < MaxRegs
    /\ Len(coord_cbs[a]) < MaxCbs
    /\ group_levels' = IF lvl = -1 THEN group_levels
                       ELSE [group_levels EXCEPT ![a] = lvl]
    /\ coord_cbs' = [coord_cbs EXCEPT ![a] = Append(@, s)]
    /\ log' = NoEmit
    /\ raising' = {}
    /\ UNCHANGED <<restVars, primary, group_cbs, global_cbs, lastLevel>>

\* CBusFan.async_turn_on without a percentage, for the fan of address a,
\* when set_group_level returns: the level the fan had, LEVEL_MED when it
\* was off, is sent and then written into the cache of the coordinator.
fan_async_turn_on(a) ==
    /\ cur = "none"
    /\ connected
    /\ group_levels' = [group_levels EXCEPT ![a] =
                          IF lookup(a) > 0 THEN lookup(a) ELSE LEVEL_MED]
    /\ UNCHANGED <<restVars, routerVars>>

\* ------------------------------------------------------------ functions
\* The arguments of set_group_level: an address and a level.
SetArgs ==
    {[f |-> "set", a |-> a, level |-> l] :
        a \in Addrs, l \in (0 - MaxBelow)..(255 + MaxAbove)}

\* A set_group_level that sends "on" only above 255.
CommandTextStrict(a, level) ==
    IF level <= 0 THEN <<"off", a>>
    ELSE IF level > 255 THEN <<"on", a>>
    ELSE <<"ramp", a, level>>

\* The command set_group_level builds: "off <path>", "on <path>" or
\* "ramp <path> <level>"; a path is written as its address.
CommandText(a, level) ==
    IF level <= 0 THEN <<"off", a>>
    ELSE IF level >= 255 THEN <<"on", a>>
    ELSE <<"ramp", a, level>>

\* set_group_level up to the command it hands to _send_and_wait.
set_group_level_command ==
    /\ arg.f = "set"
    /\ out = NoOut
    /\ out' = CommandText(arg.a, arg.level)
    /\ UNCHANGED <<sessVars, taskVars, histVars, chanVars, group_levels,
                   envVars, connErr, routerVars, streamHist, closes,
                   ioVars, arg>>

\* The lines of the responses get_group_level looks at:
\* "200 OK", "text", "300 //P/N/A/1: level=128", "//P/N/A/1 level=7" and
\* "text level=5 level=9".
RespLines ==
    {OkLine, JunkLine,
     << <<"code", 300>>, <<"addr", 1>>, <<"level", 128>> >>,
     << <<"addr", 1>>, <<"level", 7>> >>,
     << <<"word", 0>>, <<"level", 5>>, <<"level", 9>> >>}

\* The responses of up to MaxResp lines.
Responses ==
    UNION {[1..n -> RespLines] : n \in 0..MaxResp}

\* The arguments of get_group_level with the response send_command gives.
GetArgs == {[f |-> "get", a |-> a, resp |-> r] : a \in Addrs, r \in Responses}

\* A scan that keeps the match of the last line that has one.
GetLevelLast(resp) ==
    LET S == {i \in 1..Len(resp) : FirstIdx(resp[i], "level", 1) # 0}
        i == CHOOSE x \in S : \A y \in S : y <= x
    IN IF S = {} THEN <<"none">>
       ELSE <<"level", resp[i][FirstIdx(resp[i], "level", 1)][2]>>

\* The loop of get_group_level: re.search(r"level=(\d+)", line) on each
\* line in turn, the number of the first match, None when no line matches.
GetLevel(resp) ==
    LET S == {i \in 1..Len(resp) : FirstIdx(resp[i], "level", 1) # 0}
        i == CHOOSE x \in S : \A y \in S : x <= y
    IN IF S = {} THEN <<"none">>
       ELSE <<"level", resp[i][FirstIdx(resp[i], "level", 1)][2]>>

\* The command get_group_level sends: "get <path> level".
QueryText(a) == <<"get", a>>

\* get_group_level: the query, and what it returns for the response.
get_group_level ==
    /\ arg.f = "get"
    /\ out = NoOut
    /\ out' = QueryText(arg.a) \o GetLevel(arg.resp)
    /\ UNCHANGED <<sessVars, taskVars, histVars, chanVars, group_levels,
                   envVars, connErr, routerVars, streamHist, closes,
                   ioVars, arg>>

\* The tokens of the lines the classifier is applied to: the addresses, a
\* level token "level=50", the keyword lighting, the action keywords in
\* lower case and in capitals, "state=off" and "state=on", and a word.
LineTokens ==
    {<<"addr", a>> : a \in Addrs}
    \cup {<<"level", 50>>, <<"lighting", 0>>, <<"word", 0>>}
    \cup {<<"action", k>> : k \in {0, 1, 2, 10, 11, 12}}
    \cup {<<"state", 0>>, <<"state", 1>>}

ClassifierLines == UNION {[1..n -> LineTokens] : n \in 0..MaxLine}

LineArgs == {[f |-> "line", line |-> l] : l \in ClassifierLines}

\* _handle_event_line on a line: the one update it emits, or none.
handle_event_line_call ==
    /\ arg.f = "line"
    /\ out = NoOut
    /\ out' = LET u == handle_event_line(arg.line)
              IN IF u = NoUpdate THEN <<"none">>
                 ELSE <<"update", u.a, u.level>>
    /\ UNCHANGED <<sessVars, taskVars, histVars, chanVars, group_levels,
                   envVars, connErr, routerVars, streamHist, closes,
                   ioVars, arg>>

\* ---------------------------------------------------------------- claims
\* The tasks inside an exchange: the command is written and the terminal
\* status line is not read yet.
InExchange == {t \in Tasks : pc[t] \in {"read", "rwait", "rready"}}
\* The call of the task has ended and its caller has not gone on yet.
Finished(t) == cur = t /\ pc[t] \in {"done", "probed"}
\* The calls through send_command.
Locked(t) == kind[t] \in {"send", "noop"}
\* The last line the task read is a status line, with this code.
TerminalCode(t) ==
    IF lines[t] = <<>> THEN 0 ELSE CODE_RE(lines[t][Len(lines[t])].l)

\* C1: at most one command exchange is in progress on the command channel
\* at any time, whichever entry point started it.
C1_OneExchangeInProgress == Cardinality(InExchange) <= 1

\* C2: every line a caller's send has read (the lines it returns, or the
\* line its error carries) was sent by the gateway in answer to that
\* caller's own command.
C2_ResponsesCorrelated ==
    \A t \in Tasks : \A i \in 1..Len(lines[t]) : lines[t][i].for = t

\* C3: a send whose first received status line has a code >= 400 fails with
\* a protocol error carrying that line, however many lines without a code
\* came before it.
C3_ErrorStatusRaises ==
    \A t \in Tasks :
        Finished(t) /\ TerminalCode(t) >= 400 =>
            /\ result[t] = "protocol_error"
            /\ ret[t] = <<lines[t][Len(lines[t])].l>>

\* C4: a send started after close fails without writing to, reading from
\* or opening a socket.
C4_NoIoAfterClose ==
    \A t \in Tasks : startedClosed[t] => ~io[t]

\* C5: once close has been called the keepalive and both readers are
\* stopped, the three channels are closed, and none is opened again, also
\* when an exchange was in flight or waiting for the lock at the moment of
\* close (calls made after close are the matter of C4 and are left out).
C5_ClosedIsTerminal ==
    closed /\ (\A t \in Tasks : ~startedClosed[t]) =>
        /\ pc["ka"] \in {"stopped", "cancelled"}
        /\ \A ch \in Channels : evTask[ch] # "running" /\ evH[ch] # "open"
        /\ \A c \in ConnIds : ~conns[c].open
        /\ \A t \in Tasks : pc[t] # "opening"

\* C6: a send_command that hits a connection-level failure reopens the
\* command transport and transmits the command again; the command is
\* transmitted at most twice, and when the second attempt fails too the
\* connection error reaches the caller.
C6_SendCommandRetriesOnce ==
    \A t \in Tasks :
        Locked(t) =>
            /\ tx[t] <= 2
            /\ fails[t] >= 1 => reconn[t] = 1
            /\ attempt[t] = 2 => txLast[t] = 2
            /\ fails[t] = 2 => Finished(t) /\ result[t] = "conn_error"
            /\ result[t] = "conn_error" => reconn[t] = 1

\* C6, its case: the caller of send_command has the connection error after
\* two transmissions.
C6_Witness ==
    \E t \in Tasks :
        /\ Locked(t) /\ Finished(t) /\ ~closed
        /\ result[t] = "conn_error" /\ tx[t] = 2 /\ reconn[t] = 1

\* C7: under repeated connection-level failures the command of
\* set_group_level is transmitted at most twice (stated for a session that
\* is not closed and has no other caller, where the failures are the
\* gateway's).
C7_SetTransmitsAtMostTwice ==
    \A t \in Tasks :
        /\ kind[t] = "set" /\ ~closed
        /\ \A u \in Tasks \ {t} : pc[u] \in {"idle", "sleep"}
        => tx[t] <= 2

\* C8: a command rejected with a code >= 400 is not retried: it is not
\* transmitted again, no reconnect follows, and the error reaches the caller.
C8_RejectedNotRetried ==
    \A t \in Tasks :
        Finished(t) /\ TerminalCode(t) >= 400 =>
            /\ txLast[t] = attempt[t]
            /\ fails[t] = 0 => tx[t] = 1 /\ reconn[t] = 0
            /\ result[t] \notin {"none", "ok"}

\* C9: when the terminal status line has a code < 400 the send returns,
\* without error, the lines it received, in the order of receipt, up to and
\* including the terminal line, and has taken no line after it.
C9_SuccessReturnsLines ==
    \A t \in Tasks :
        Finished(t) /\ TerminalCode(t) > 0 /\ TerminalCode(t) < 400 =>
            /\ result[t] = "ok"
            /\ Len(ret[t]) = Len(lines[t])
            /\ \A i \in 1..Len(lines[t]) : ret[t][i] = lines[t][i].l
            /\ \A i \in 1..(Len(lines[t]) - 1) : CODE_RE(lines[t][i].l) = 0
            /\ nread[t] = Len(ret[t])

\* C9, its case: a send returns a line without a code and the terminal line.
C9_Witness ==
    \E t \in Tasks :
        /\ Finished(t) /\ result[t] = "ok"
        /\ Len(ret[t]) = 2 /\ CODE_RE(ret[t][2]) = 200

\* The updates the lines without a status code among lns yield, in order.
YieldsUpdate(rec) == CODE_RE(rec.l) = 0 /\ handle_event_line(rec.l) # NoUpdate
UpdatesOf(lns) ==
    LET s == SelectSeq(lns, YieldsUpdate)
    IN [i \in 1..Len(s) |-> handle_event_line(s[i].l)]

\* C10: in an exchange every received line without a status code has been
\* classified, and the update it yields delivered, before the next line is
\* read and before the send returns or raises.
C10_EmbeddedLinesRouted ==
    \A t \in Tasks :
        /\ emitted[t] = UpdatesOf(lines[t])
        /\ cur = t /\ pc[t] = "read" /\ lines[t] # <<>> =>
              LET u == handle_event_line(lines[t][Len(lines[t])].l)
              IN u # NoUpdate => group_levels[u.a] = u.level

\* C10, its case: a task about to read the next line of its response after
\* a line that yields an update.
C10_Witness ==
    \E t \in Tasks :
        /\ cur = t /\ pc[t] = "read"
        /\ emitted[t] # <<>> /\ group_levels[1] = 255

\* C12: async_connect raises, starting no reader and no keepalive, exactly
\* when the command channel cannot be opened; an event or load-change
\* channel that cannot be opened only leaves its handle absent, and
\* async_connect completes with the keepalive running.
C12_OnlyCommandChannelFatal ==
    /\ [](connErr =>
            /\ ~connected /\ cmdH = 0
            /\ pc["ka"] = "idle"
            /\ \A ch \in Channels : evTask[ch] = "none" /\ evH[ch] = "absent")
    /\ [][~connected =>
            /\ connErr' <=> cmdH' = 0
            /\ connErr' <=> ~connected'
            /\ connected' =>
                  /\ conns'[cmdH'].open
                  /\ pc'["ka"] = "sleep"
                  /\ \A ch \in Channels :
                        \/ evH'[ch] = "open" /\ evTask'[ch] = "running"
                        \/ evH'[ch] = "absent" /\ evTask'[ch] = "done"]_vars

\* C12, its case: async_connect has completed although the event channel
\* could not be opened.
C12_Witness ==
    /\ connected /\ ~closed /\ ticks = 0
    /\ evH["event"] = "absent" /\ evTask["event"] = "done"
    /\ pc["ka"] = "sleep"

\* C13: a failed keepalive probe, whatever it raised, does not end the
\* keepalive: while the session is not closed the keepalive is running, it
\* goes back to its sleep after a failed probe, and a further round follows.
C13_FailedProbeKeepsSupervisor ==
    /\ [](connected /\ ~closed =>
            pc["ka"] \notin {"idle", "stopped", "cancelled"})
    /\ [][Finished("ka") /\ result["ka"] # "ok" /\ ~closed =>
            pc'["ka"] = "sleep"]_vars
    /\ \A n \in 1..(MaxRounds - 1) :
          (Finished("ka") /\ result["ka"] # "ok" /\ ~closed /\ ticks = n)
              ~> (closed \/ ticks = n + 1)

\* C13, its case: the keepalive is in a probe that found no command
\* handle and had to reconnect before its first transmission, while no
\* other caller had touched the session: the probe before it had failed.
C13_Witness ==
    /\ ~closed /\ ticks = 2 /\ pc["u1"] = "idle"
    /\ pc["ka"] = "rwait" /\ reconn["ka"] = 1 /\ tx["ka"] = 1

\* An entry of the log that _emit_group_update made itself (the others are
\* made inside handle_group_update).
IsTop(e) == e.by # "coord"
\* The entries of the log of the kind, for the callback.
Calls(by, cb) ==
    Cardinality({i \in 1..Len(log.inv) :
                    log.inv[i].by = by /\ log.inv[i].cb = cb})
\* How often the callback is in the list.
Occ(cbs, cb) == Cardinality({i \in 1..Len(cbs) : cbs[i] = cb})

\* The calls of the callback in the last handle_group_update.
CallsOf(c, cb) == {i \in 1..Len(c.inv) : c.inv[i].cb = cb}

\* C21: a handle_group_update for address a invokes a callback that is
\* registered once for a exactly once, for a and with the level of the
\* update, and does not invoke a callback that is not registered for a
\* (one registered for another address only, or one that was removed);
\* unregister_callback of a callback registered once leaves it not
\* registered.
C21_RegisteredOnceInvokedOnce ==
    /\ [][calls'.t # calls.t =>
            \A cb \in Subs :
               LET n == Occ(coord_cbs[calls'.a], cb)
                   S == CallsOf(calls', cb)
               IN /\ n = 1 => /\ Cardinality(S) = 1
                              /\ \A i \in S :
                                    /\ calls'.inv[i].a = calls'.a
                                    /\ calls'.inv[i].level = calls'.level
                  /\ n = 0 => S = {}]_vars
    /\ [][\A a \in Addrs, cb \in Subs :
            unregister_callback(a, cb) /\ Occ(coord_cbs[a], cb) = 1 =>
                Occ(coord_cbs'[a], cb) = 0]_vars

\* An update of address 1 to 200 invoked s1, registered for address 1,
\* once with 200, and not s2, registered for address 2.
C21_Witness ==
    /\ coord_cbs[1] = <<"s1">>
    /\ coord_cbs[2] = <<"s2">>
    /\ calls.a = 1
    /\ calls.inv = <<[cb |-> "s1", a |-> 1, level |-> 200]>>
    /\ group_levels[1] = 200

\* C22: the callbacks of an address are a multiset. A handle_group_update
\* invokes each callback as often as it is registered for the address;
\* register_callback adds one occurrence; unregister_callback takes away
\* one occurrence when there is one and changes nothing else, and when
\* there is none (also when the address has no callbacks at all) it has no
\* outcome that raises and leaves the registry as it is. The registry
\* reads an address without an entry and one with an empty list alike
\* (self._callbacks.get(key, [])).
C22_RegistryIsMultiset ==
    /\ [][calls'.t # calls.t =>
            \A cb \in Subs :
               Cardinality(CallsOf(calls', cb))
                   = Occ(coord_cbs[calls'.a], cb)]_vars
    /\ [][\A a \in Addrs, cb \in Subs :
            register_callback(a, cb) =>
               \A a2 \in Addrs, cb2 \in Subs :
                  Occ(coord_cbs'[a2], cb2) =
                     Occ(coord_cbs[a2], cb2)
                     + (IF a2 = a /\ cb2 = cb THEN 1 ELSE 0)]_vars
    /\ [][\A a \in Addrs, cb \in Subs :
            unregister_callback(a, cb) =>
               /\ Occ(coord_cbs[a], cb) = 0 => coord_cbs' = coord_cbs
               /\ \A a2 \in Addrs, cb2 \in Subs :
                     Occ(coord_cbs'[a2], cb2) =
                        Occ(coord_cbs[a2], cb2)
                        - (IF a2 = a /\ cb2 = cb /\ Occ(coord_cbs[a], cb) > 0
                           THEN 1 ELSE 0)]_vars

\* s1 is registered twice for address 1 and an update of address 1 invoked
\* it twice.
C22_Witness ==
    /\ coord_cbs[1] = <<"s1", "s1">>
    /\ calls.a = 1
    /\ calls.inv = <<[cb |-> "s1", a |-> 1, level |-> 200],
                     [cb |-> "s1", a |-> 1, level |-> 200]>>

\* C23: the calls a handle_group_update makes are those of the list of
\* the address as it was when the call began, one call for each entry and
\* in its order, whatever the callbacks unregister or register while they
\* run: a callback removed during the notification is still invoked, one
\* added during it is not.
C23_NotifiesSnapshot ==
    [][calls'.t # calls.t =>
         calls'.inv = [i \in 1..Len(coord_cbs[calls'.a]) |->
                         [cb |-> coord_cbs[calls'.a][i], a |-> calls'.a,
                          level |-> calls'.level]]]_vars

\* s1 and s2 were both invoked for an update of address 1 although s2 was
\* unregistered while the notification ran.
C23_Witness ==
    /\ calls.a = 1
    /\ calls.inv = <<[cb |-> "s1", a |-> 1, level |-> 200],
                     [cb |-> "s2", a |-> 1, level |-> 200]>>
    /\ calls.after = <<"s1">>

\* C24: every level in the cache of the coordinator is an integer from 0
\* to 255 (-1 stands for an address without an entry).
C24_LevelsInRange ==
    \A a \in Addrs : group_levels[a] \in -1..255

\* C25: the command of set_group_level for an address and a level is
\* "off <path>" when the level is 0 or less, "on <path>" when it is 255 or
\* more, and "ramp <path> <level>" in between, with the path of the
\* address.
C25_CommandByLevel ==
    arg.f = "set" /\ out # NoOut =>
        /\ arg.level <= 0 => out = <<"off", arg.a>>
        /\ arg.level >= 255 => out = <<"on", arg.a>>
        /\ arg.level > 0 /\ arg.level < 255 =>
              out = <<"ramp", arg.a, arg.level>>

\* Level 255 of address 2 gave "on".
C25_Witness ==
    /\ arg = [f |-> "set", a |-> 2, level |-> 255]
    /\ out = <<"on", 2>>

\* C26: get_group_level sends the level query of the address, and what it
\* returns is none when no line of the response has a level token, and
\* otherwise the number of the first level token of the first line that
\* has one.
C26_FirstLevelToken ==
    arg.f = "get" /\ out # NoOut =>
        LET r == arg.resp
            HasLevel(i) == \E k \in 1..Len(r[i]) : r[i][k][1] = "level"
        IN /\ SubSeq(out, 1, 2) = <<"get", arg.a>>
           /\ (\A i \in 1..Len(r) : ~HasLevel(i)) =>
                 SubSeq(out, 3, Len(out)) = <<"none">>
           /\ \A i \in 1..Len(r), k \in 1..3 :
                 /\ k <= Len(r[i])
                 /\ r[i][k][1] = "level"
                 /\ \A j \in 1..(k - 1) : r[i][j][1] # "level"
                 /\ \A j \in 1..(i - 1) : ~HasLevel(j)
                 => SubSeq(out, 3, Len(out)) = <<"level", r[i][k][2]>>

\* The response "text", "text level=5 level=9", "//P/N/A/1 level=7" gave 5.
C26_Witness ==
    /\ arg.f = "get"
    /\ arg.resp = <<JunkLine,
                    << <<"word", 0>>, <<"level", 5>>, <<"level", 9>> >>,
                    << <<"addr", 1>>, <<"level", 7>> >> >>
    /\ out = <<"get", arg.a, "level", 5>>

\* The line the classifier was applied to, once it has returned.
Classified == arg.f = "line" /\ out # NoOut
\* Rule 1 matches: the first address of the line has a level token after it.
HasLevel(line) ==
    /\ FirstIdx(line, "addr", 1) # 0
    /\ FirstIdx(line, "level", FirstIdx(line, "addr", 1) + 1) # 0
\* The places of the line where "lighting <action> <address>" begins.
LightingAt(line) ==
    {i \in 1..(Len(line) - 2) : /\ line[i][1] = "lighting"
                                /\ line[i + 1][1] = "action"
                                /\ line[i + 2][1] = "addr"}
FirstLighting(line) ==
    CHOOSE i \in LightingAt(line) : \A j \in LightingAt(line) : i <= j
HasState(line, v) == \E i \in 1..Len(line) : line[i] = <<"state", v>>

\* C27: the classifier tries its rules in the order 1 (an address followed by
\* "level=N"), 2 (lighting <action> <address>), 3 (state=on, state=off with
\* an address), and the first rule that matches decides alone: a line yields
\* at most one update, a line that matches rule 1 yields the level N of its
\* token even when it matches rule 2 or 3 as well, and a line that matches
\* no rule yields no update.
C27_FirstRuleDecides ==
    Classified =>
        LET line == arg.line
            a1 == FirstIdx(line, "addr", 1)
        IN /\ out = <<"none">> \/ (Len(out) = 3 /\ out[1] = "update")
           /\ HasLevel(line) =>
                  out = <<"update", line[a1][2],
                          line[FirstIdx(line, "level", a1 + 1)][2]>>
           /\ ~HasLevel(line) /\ LightingAt(line) # {} =>
                  /\ out[1] = "update"
                  /\ out[2] = line[FirstLighting(line) + 2][2]
                  /\ out[3] \in {0, 255}
           /\ /\ ~HasLevel(line)
              /\ LightingAt(line) = {}
              /\ HasState(line, 0) \/ HasState(line, 1)
              => out = IF a1 = 0 THEN <<"none">>
                       ELSE <<"update", line[a1][2],
                              IF HasState(line, 1) THEN 255 ELSE 0>>
           /\ /\ ~HasLevel(line)
              /\ LightingAt(line) = {}
              /\ ~HasState(line, 0)
              /\ ~HasState(line, 1)
              => out = <<"none">>

\* "lighting on //P/N/A/1 level=50" matches rules 1 and 2, and the level
\* of rule 1 was emitted.
C27_Witness ==
    /\ arg.f = "line"
    /\ arg.line = << <<"lighting", 0>>, <<"action", 1>>, <<"addr", 1>>,
                     <<"level", 50>> >>
    /\ out = <<"update", 1, 50>>

IntegrationWiring == primary /\ global_cbs = <<"hge">>
\* The runs of handle_group_update inside the last emit: one as the primary
\* callback, one for each handle_global_event among the global callbacks.
Applications ==
    {i \in 1..Len(log.inv) :
        \/ log.inv[i].by = "primary"
        \/ log.inv[i].by = "global" /\ log.inv[i].cb = "hge"}

\* C29: under the wiring of the integration each update the session emits
\* is applied to the coordinator exactly once, and each callback registered
\* with the coordinator for the address is invoked once for each of its
\* registrations.
C29_AppliedOnce ==
    log.u # NoUpdate /\ IntegrationWiring =>
        /\ Cardinality(Applications) = 1
        /\ \A cb \in Subs :
              Calls("coord", cb) = Occ(coord_cbs[log.u.a], cb)

\* C30: a reader that meets the end of its stream or an I/O error marks the
\* handle of its channel absent and terminates, and opens no connection;
\* on a connected session the event and load-change channels are opened
\* again by the keepalive alone, and a command connection is opened inside
\* _send_and_wait alone.
C30_WhoReopens ==
    [][/\ \A ch \in Channels :
            read_stream_end(ch) =>
                /\ evH'[ch] = "absent"
                /\ evTask'[ch] = "done"
                /\ \A o \in Channels \ {ch} : evH'[o] = evH[o]
                /\ cmdH' = cmdH
                /\ conns' = conns
       /\ connected /\ evH["event"] # "open" /\ evH'["event"] = "open"
            => keepalive_open_event(TRUE)
       /\ connected /\ evH["status"] # "open" /\ evH'["status"] = "open"
            => keepalive_open_status(TRUE)
       /\ /\ connected
          /\ \/ cmdH' # cmdH /\ cmdH' # 0
             \/ \E c \in ConnIds : conns'[c].open /\ ~conns[c].open
          => \E t \in Tasks : open_command_connection(t, TRUE)]_vars

\* The keepalive reopened the load-change channel, and the reader it
\* started met the end of the stream and returned.
C30_Witness ==
    /\ reopened["status"]
    /\ evH["status"] = "absent"
    /\ evTask["status"] = "done"

\* C31: each streaming channel has at most one reader task that is still
\* running, whatever the order of the ends of streams, the failed reads and
\* the reopen attempts of the keepalive.
C31_OneReader ==
    \A ch \in Channels :
        /\ readers[ch] <= 1
        /\ readers[ch] = 1 <=> evTask[ch] = "running"

\* The keepalive reopened the event channel after its reader had returned,
\* and the reader it created is the one reader of the channel.
C31_Witness ==
    /\ reopened["event"]
    /\ evTask["event"] = "running"
    /\ readers["event"] = 1

\* The lines of an input that were taken from its buffer, in the order the
\* gateway sent them.
Processed(c) ==
    LET waiting == IF c = "command"
                   THEN IF cmdH = 0 THEN 0 ELSE Len(conns[cmdH].buf)
                   ELSE Len(inbox[c])
    IN SubSeq(sent[c], 1, Len(sent[c]) - waiting)

\* The events of the lines, line after line.
RECURSIVE ExpectedTrace(_, _)
ExpectedTrace(c, seq) ==
    IF seq = <<>> THEN <<>>
    ELSE EventsOf(c, Head(seq)) \o ExpectedTrace(c, Tail(seq))

\* C32: within one input (the event channel, the load-change channel, the
\* response of a command) the lines are processed in the order they were
\* received, and the update of a line has been delivered to every one of
\* its subscribers before the next line is classified.
C32_ReceiptOrder ==
    \A c \in Inputs : trace[c] = ExpectedTrace(c, Processed(c))

\* Two lines of the load-change channel were processed with three
\* callbacks to call for each, and a line of a command response was
\* classified.
C32_Witness ==
    /\ sent["status"] = <<EvtLine, RampLine>>
    /\ inbox["status"] = <<>>
    /\ primary
    /\ coord_cbs[1] = <<"s1">>
    /\ group_cbs[1] = <<"s2">>
    /\ Len(trace["status"]) = 8
    /\ trace["status"][5].e = "classify"
    /\ trace["status"][5].l = RampLine
    /\ trace["command"] # <<>>

\* C33: the repair of the load-change channel does not depend on the event
\* channel: in a round of the keepalive an attempt to reopen the event
\* channel that fails is followed by the check of the load-change channel
\* and the attempt to reopen it when it is absent, and the reopening of
\* one channel leaves the handle and the reader of the other as they are.
C33_IndependentRepair ==
    [][/\ \A ok \in BOOLEAN :
            keepalive_open_event(ok) =>
                /\ evH'["status"] = evH["status"]
                /\ evTask'["status"] = evTask["status"]
                /\ evH["status"] = "absent" /\ ~closed
                      => pc'["ka"] = "stopen"
       /\ \A ok \in BOOLEAN :
            keepalive_open_status(ok) =>
                /\ evH'["event"] = evH["event"]
                /\ evTask'["event"] = evTask["event"]
       /\ /\ keepalive_after_probe
          /\ result["ka"] = "ok"
          /\ evH["event"] # "absent"
          /\ evH["status"] = "absent"
          /\ ~closed
          => pc'["ka"] = "stopen"]_vars

\* In the one round of the keepalive so far the reopening of the event
\* channel failed, and the load-change channel was reopened all the same.
C33_Witness ==
    /\ ticks = 1
    /\ faults = MaxOpenFaults
    /\ evH["event"] = "absent"
    /\ reopened["status"]
    /\ ~reopened["event"]
    /\ evH["status"] = "open"
    /\ evTask["status"] = "running"

\* C34: when the reopening of the command transport fails during a send,
\* the failure is raised to the caller of that send and the command handle
\* stays absent; a send that finds the handle absent attempts to reopen the
\* transport, and when the gateway accepts the connection the command is
\* written on it: the channel recovers without a new connect.
C34_SendRecoversChannel ==
    [][\A t \in Tasks :
          /\ open_command_connection(t, FALSE) =>
                /\ result'[t] = "conn_error"
                /\ pc'[t] \in {"done", "probed"}
                /\ cmdH' = 0
          /\ attempt[t] = 0 /\ attempt'[t] = 1 /\ cmdH = 0 =>
                /\ pc'[t] = "opening"
                /\ reconn'[t] = 1
                /\ tx'[t] = 0
          /\ open_command_connection(t, TRUE) =>
                /\ cmdH' # 0
                /\ conns'[cmdH'].open
                /\ connected' = connected
                /\ tx'[t] = tx[t] + 1
                /\ pc'[t] \in {"rwait", "read"}]_vars

\* C35: for every kind of channel (command, event, load-change) an open
\* whose connection the gateway has accepted completes, also when the
\* gateway never sends a greeting line.
C35_OpenWithoutGreeting ==
    \A c \in Inputs : (opn[c] = "greeting") ~> (opn[c] = "open")

\* C36: the cache of levels changes through handle_group_update alone (not
\* when an entity is added, a callback runs, a level is set, a callback is
\* registered or removed), and handle_group_update for an address leaves
\* the entries of the other addresses and, with callbacks that do not
\* register or unregister, the registry of callbacks as they are.
C36_CacheWrittenByUpdateAlone ==
    [][/\ group_levels' # group_levels => calls'.t # calls.t
       /\ \A a \in Addrs, level \in Levels :
            handle_group_update(a, level, [s \in Subs |-> "nop"]) =>
                /\ \A x \in Addrs \ {a} : group_levels'[x] = group_levels[x]
                /\ coord_cbs' = coord_cbs]_vars

\* The task is inside a call: it waits for the lock, or it is in
\* _send_and_wait, reading or reconnecting.
InCall(t) == pc[t] \in {"lockwait", "read", "rwait", "rready", "opening"}

\* C37: every send_command call ends, by returning or raising, after at
\* most two attempts and two transmissions, when each read of the command
\* socket yields a line or end-of-stream and each response gets its status
\* line; however the call ends the command lock is released, and the send
\* or the probe that waits for the lock goes on and ends too.
C37_SendCommandTerminates ==
    /\ [](\A t \in Tasks :
            Locked(t) => /\ attempt[t] <= 2 /\ tx[t] <= 2
                         /\ ~InCall(t) => cmd_lock # t)
    /\ [](\A t \in Tasks : cmd_lock = t => Locked(t) /\ InCall(t))
    /\ \A t \in Tasks : (Locked(t) /\ InCall(t)) ~> ~InCall(t)

\* C37, its case: a call through send_command has ended after two
\* transmissions with an error, the lock is free, and the other caller,
\* which waits for the lock, can go on.
C37_Witness ==
    \E t, w \in Tasks :
        /\ Locked(t) /\ Finished(t) /\ tx[t] = 2
        /\ result[t] \in {"conn_error", "protocol_error"}
        /\ cmd_lock = "free" /\ pc[w] = "lockwait" /\ ~closed

\* C20: the level read for an address (group_levels.get(key, 0)) is the
\* level of the last update handle_group_update applied to that address,
\* and 0 when none was applied, whatever callbacks were registered or
\* removed in between.
C20_LookupIsLastUpdate ==
    \A a \in Addrs :
        lookup(a) = IF lastLevel[a] = -1 THEN 0 ELSE lastLevel[a]

\* Address 1 was updated, last to 128, with a subscriber registered; address
\* 2 never was and reads 0.
C20_Witness ==
    /\ lastLevel[1] = 128
    /\ lookup(1) = 128
    /\ lastLevel[2] = -1
    /\ lookup(2) = 0
    /\ coord_cbs[1] # <<>>
    /\ coord_cbs[2] # <<>>

\* C19: in an emit in which callbacks raise every callback due the update
\* is invoked all the same, as often as it is registered: the primary one,
\* the per-group ones of the address, the global ones, and the
\* coordinator's own of the address at each call of handle_group_update;
\* and the step leaves the channels and their readers as they are.
C19_RaisingSubscriberIsolated ==
    /\ [](log.u # NoUpdate /\ raising # {} =>
            LET a == log.u.a
                n == (IF primary THEN 1 ELSE 0) + Occ(global_cbs, "hge")
            IN /\ Calls("primary", "coordinator") = IF primary THEN 1 ELSE 0
               /\ \A cb \in Subs :
                     /\ Calls("group", cb) = Occ(group_cbs[a], cb)
                     /\ Calls("coord", cb) = n * Occ(coord_cbs[a], cb)
               /\ \A cb \in GlobalCbs :
                     Calls("global", cb) = Occ(global_cbs, cb))
    /\ [][log'.u # NoUpdate /\ raising' # {} =>
            evH' = evH /\ evTask' = evTask]_vars

\* s1 raised twice, as the first of the coordinator's callbacks and as a
\* per-group callback; s2 was invoked after it both times.
C19_Witness ==
    /\ raising = {"s1"}
    /\ primary
    /\ log.u.a = 1
    /\ coord_cbs[1] = <<"s1", "s2">>
    /\ group_cbs[1] = <<"s1">>
    /\ global_cbs = <<"s2">>
    /\ Len(log.inv) = 5
    /\ log.inv[3] = [by |-> "coord", key |-> 1, cb |-> "s2"]
    /\ log.inv[5] = [by |-> "global", key |-> 1, cb |-> "s2"]
    /\ \E ch \in Channels : evTask[ch] = "running"

\* C18: the callbacks _emit_group_update invokes itself are, in this order,
\* the primary one when it is set, the per-group ones of the address of
\* the update in the order they were registered, and the global ones in
\* the order they were registered; a per-group callback of another
\* address is not among them.
C18_EmitOrder ==
    log.u # NoUpdate =>
        LET a == log.u.a
            top == SelectSeq(log.inv, IsTop)
        IN /\ top = (IF primary
                     THEN <<[by |-> "primary", key |-> a,
                             cb |-> "coordinator"]>>
                     ELSE <<>>)
                    \o [i \in 1..Len(group_cbs[a]) |->
                          [by |-> "group", key |-> a, cb |-> group_cbs[a][i]]]
                    \o [i \in 1..Len(global_cbs) |->
                          [by |-> "global", key |-> a, cb |-> global_cbs[i]]]
           /\ \A i \in 1..Len(log.inv) : log.inv[i].key = a

\* An update of address 1 went to the primary callback, to the two
\* per-group callbacks of address 1 in their order and to the global one,
\* and not to the per-group callback of address 2.
C18_Witness ==
    /\ primary
    /\ log.u.a = 1
    /\ group_cbs = [a \in Addrs |-> IF a = 1 THEN <<"s2", "s1">> ELSE <<"s1">>]
    /\ global_cbs = <<"hge">>
    /\ log.inv = << [by |-> "primary", key |-> 1, cb |-> "coordinator"],
                    [by |-> "group", key |-> 1, cb |-> "s2"],
                    [by |-> "group", key |-> 1, cb |-> "s1"],
                    [by |-> "global", key |-> 1, cb |-> "hge"] >>

\* The session as a close leaves it: the flag set, no channel open, no
\* reader and no keepalive running.
AsCloseLeavesIt ==
    /\ closed
    /\ cmdH # 0 => ~conns[cmdH].open
    /\ \A ch \in Channels : evH[ch] # "open" /\ evTask[ch] # "running"
    /\ pc["ka"] \in {"stopped", "cancelled"}

\* C17: close is idempotent. Every close, the first or a later one, leaves
\* the session as a close leaves it, and a close on a session in that state
\* changes neither the flag, nor the handle of a channel or what it refers
\* to, nor the status of a background task. close has no outcome that
\* raises.
C17_CloseIdempotent ==
    /\ [][close => AsCloseLeavesIt']_vars
    /\ [][AsCloseLeavesIt /\ close =>
            /\ UNCHANGED <<closed, cmdH, evH, evTask>>
            /\ pc'["ka"] = pc["ka"]
            /\ cmdH # 0 => conns'[cmdH] = conns[cmdH]]_vars

\* close was called twice and the channels and tasks are as the first call
\* left them.
C17_Witness ==
    /\ closes = 2
    /\ AsCloseLeavesIt
    /\ cmdH # 0
    /\ \A ch \in Channels : evH[ch] = "closed" /\ evTask[ch] = "cancelled"
    /\ pc["ka"] = "cancelled"

\* C16: the session only moves forward; once it is closed no step opens
\* the flag again, opens a channel or starts the keepalive or a reader.
C16_ClosedNeverReopens ==
    [][closed =>
         /\ closed'
         /\ \A ch \in Channels :
               /\ evH'[ch] = "open" => evH[ch] = "open"
               /\ evTask'[ch] = "running" => evTask[ch] = "running"
         /\ pc'["ka"] \in {"stopped", "cancelled"}
         /\ \A c \in ConnIds : conns'[c].open => conns[c].open]_vars

\* C15: once the load-change channel was marked dead, a round of the
\* supervisor whose open of it succeeds leaves the channel open with a
\* running reader; a running reader has an open channel; and every line a
\* reader of the load-change channel reads that is not blank is classified
\* by _handle_event_line and the update it yields is in the cache after the
\* step.
C15_ReopenedReaderDelivers ==
    /\ [](evTask["status"] = "running" => evH["status"] = "open")
    /\ [][pc["ka"] = "stopen" /\ evH'["status"] = "open" =>
            evTask'["status"] = "running" /\ reopened'["status"]]_vars
    /\ [][lastRead' # lastRead /\ lastRead'.ch = "status"
            /\ lastRead'.l # BlankLine =>
            LET u == handle_event_line(lastRead'.l)
            IN u # NoUpdate => group_levels'[u.a] = u.level]_vars

\* A line of the load-change channel that _keepalive reopened was
\* read and its update is in the cache.
C15_Witness ==
    /\ ~closed
    /\ evTask["status"] = "running"
    /\ lastRead.ch = "status"
    /\ lastRead.re
    /\ lastRead.l = EvtLine
    /\ group_levels[1] = 255

\* C14: in every round of the keepalive in which the handle of the event
\* or of the load-change channel is absent the keepalive goes on to reopen
\* it, whether the probe of the round succeeded or not.
C14_AbsentChannelReopenedEachTick ==
    [][Finished("ka") /\ ~closed
       /\ (\E ch \in Channels : evH[ch] = "absent") =>
            pc'["ka"] = "evopen" \/ pc'["ka"] = "stopen"]_vars

\* C11: every state-dump line in the response to a keepalive probe (a
\* line with an address and a level) becomes an update delivered to the
\* router.
C11_DumpLinesDelivered ==
    kind["ka"] = "noop" =>
        \A i \in 1..Len(lines["ka"]) :
            LET u == GROUP_LEVEL_RE(lines["ka"][i].l)
            IN u # NoUpdate =>
                  \E j \in 1..Len(emitted["ka"]) : emitted["ka"][j] = u

Next ==
    \/ \E okCmd, okEv, okSt \in BOOLEAN :
          async_connect(okCmd, okEv, okSt) /\ UNCHANGED readers
    \/ close /\ UNCHANGED <<closes, readers>>
    \/ send_command("u1")
    \/ set_group_level("u2")
    \/ \E t \in Users : return_call(t)
    \/ \E t \in Tasks : acquire_lock(t)
    \/ \E t \in Tasks : read_line(t) /\ UNCHANGED ioVars
    \/ \E t \in Tasks : resume_read(t) /\ UNCHANGED ioVars
    \/ \E t \in Tasks, ok \in BOOLEAN : open_command_connection(t, ok)
    \/ \E c \in ConnIds, l \in ExtraLines \cup StatusLines :
          gateway_line(c, l) /\ UNCHANGED ioVars
    \/ \E c \in ConnIds : gateway_drop(c)
    \/ keepalive_tick(MaxTicks)
    \/ keepalive_after_probe
    \/ \E ok \in BOOLEAN : keepalive_open_event(ok) /\ UNCHANGED streamHist
    \/ \E ok \in BOOLEAN : keepalive_open_status(ok) /\ UNCHANGED streamHist
    \/ \E ch \in Channels, l \in StreamLines :
          read_stream_line(ch, l) /\ UNCHANGED streamHist
    \/ \E ch \in Channels : read_stream_end(ch) /\ UNCHANGED readers

Spec == Init /\ [][Next]_vars

\* The session with its keepalive, its streams and the callers of
\* send_command; the probe polls the bus.
NextSession ==
    \/ \E okCmd, okEv, okSt \in BOOLEAN :
          async_connect(okCmd, okEv, okSt) /\ TrackConnect(okCmd, okEv, okSt)
    \/ close /\ TrackClose
    \/ send_command("u1")
    \/ \E t \in Users : return_call(t)
    \/ \E t \in Tasks : acquire_lock(t)
    \/ \E t \in Tasks : read_line(t) /\ UNCHANGED ioVars
    \/ \E t \in Tasks : resume_read(t) /\ UNCHANGED ioVars
    \/ \E t \in Tasks, ok \in BOOLEAN : open_command_connection(t, ok)
    \/ \E c \in ConnIds, l \in PollLines :
          gateway_line(c, l) /\ UNCHANGED ioVars
    \/ \E c \in ConnIds : gateway_drop(c)
    \/ keepalive_tick(MaxRounds)
    \/ keepalive_after_probe
    \/ \E ok \in BOOLEAN :
          keepalive_open_event(ok) /\ TrackOpen("event", ok)
    \/ \E ok \in BOOLEAN :
          keepalive_open_status(ok) /\ TrackOpen("status", ok)
    \/ \E ch \in Channels, l \in ChannelLines :
          read_stream_line(ch, l) /\ TrackRead(ch, l)
    \/ \E ch \in Channels : read_stream_end(ch) /\ TrackEnd(ch)

SpecSession == Init /\ [][NextSession]_vars

\* The same session whose owner may call async_connect again after close.
NextReconnect ==
    \/ NextSession
    \/ \E okCmd, okEv, okSt \in BOOLEAN :
          /\ async_connect_closed(okCmd, okEv, okSt)
          /\ TrackConnect(okCmd, okEv, okSt)

SpecReconnect == Init /\ [][NextReconnect]_vars

\* The order of processing: the coordinator is the primary sink, callbacks
\* are registered, then the gateway
\* pushes lines on the streaming channels and answers a command, and the
\* readers and the caller of send_command take the lines.
NextOrder ==
    \/ \E okSt \in BOOLEAN :
          async_connect(TRUE, TRUE, okSt) /\ UNCHANGED readers
    \/ register_callback(1, "s1") /\ NoTraffic
    \/ register_group_callback(1, "s2") /\ NoTraffic
    \/ \E ch \in Channels, l \in OrderLines : stream_receive(ch, l)
    \/ \E ch \in Channels : read_stream_next(ch)
    \/ send_command("u1")
    \/ \E t \in Users : return_call(t)
    \/ \E t \in Tasks : read_line(t) /\ TrackTake(t)
    \/ \E t \in Tasks : resume_read(t) /\ TrackTake(t)
    \/ \E c \in ConnIds, l \in ExtraLines \cup StatusLines :
          gateway_line(c, l) /\ TrackSent(l)

SpecOrder == Init /\ [][NextOrder]_vars

\* The opening of the three channels, each on its own.
NextOpen ==
    \/ \E c \in Inputs : open_start(c)
    \/ \E c \in Inputs : gateway_accept(c)
    \/ \E c \in Inputs : connect_fails(c)
    \/ \E c \in Inputs : greeting_line(c)
    \/ \E c \in Inputs : greeting_timeout(c)
    \/ \E c \in Inputs : channel_lost(c)

SpecOpen == Init /\ [][NextOpen]_vars

\* The gateway accepts the connections and the timers of asyncio fire;
\* nothing makes the gateway send a greeting.
SpecOpenFair ==
    /\ SpecOpen
    /\ \A c \in Inputs : WF_vars(gateway_accept(c))
    /\ \A c \in Inputs : WF_vars(greeting_timeout(c))

\* The fan-out of updates: the session connects, callbacks are registered
\* and removed, and the readers emit updates.
NextRouter ==
    \/ \E okSt \in BOOLEAN :
          async_connect(TRUE, TRUE, okSt) /\ UNCHANGED readers
    \/ \E b \in BOOLEAN : set_group_update_callback(b)
    \/ \E a \in Addrs, s \in Subs : register_group_callback(a, s)
    \/ \E g \in GlobalCbs : register_global_callback(g)
    \/ \E a \in Addrs, s \in Subs : register_callback(a, s)
    \/ \E a \in Addrs, s \in Subs : unregister_callback(a, s)
    \/ \E ch \in Channels, l \in UpdateLines, R \in SUBSET Raisers :
          read_stream_update(ch, l, R)

SpecRouter == Init /\ [][NextRouter]_vars

\* The coordinator on its own: callbacks are registered and removed and
\* handle_group_update is called, with callbacks of every behaviour.
NextCoordinator ==
    \/ \E okSt \in BOOLEAN :
          async_connect(TRUE, TRUE, okSt) /\ UNCHANGED readers
    \/ \E a \in Addrs, s \in Subs : register_callback(a, s)
    \/ \E a \in Addrs, s \in Subs : unregister_callback(a, s)
    \/ \E a \in Addrs, level \in Levels, beh \in BehSets :
          handle_group_update(a, level, beh)

SpecCoordinator == Init /\ [][NextCoordinator]_vars

\* The coordinator with the entities of the platforms: entities are added
\* and removed, a fan is turned on, and updates come in for callbacks that
\* take the level and do nothing else to the coordinator.
NextEntities ==
    \/ \E okSt \in BOOLEAN :
          async_connect(TRUE, TRUE, okSt) /\ UNCHANGED readers
    \/ \E a \in Addrs, s \in Subs : unregister_callback(a, s)
    \/ \E a \in Addrs, level \in Levels :
          handle_group_update(a, level, [s \in Subs |-> "nop"])
    \/ \E a \in Addrs, s \in Subs, lvl \in FetchedLevels :
          light_async_added_to_hass(a, s, lvl)
    \/ \E a \in Addrs : fan_async_turn_on(a)

SpecEntities == Init /\ [][NextEntities]_vars

\* The functions of the session that depend on their arguments alone, each
\* applied to arguments from a bounded set.
InitFunctions ==
    /\ InitState
    /\ arg \in SetArgs \cup GetArgs \cup LineArgs
    /\ out = NoOut

NextFunctions ==
    \/ set_group_level_command
    \/ get_group_level
    \/ handle_event_line_call

SpecFunctions == InitFunctions /\ [][NextFunctions]_vars

\* The timer of asyncio.sleep fires, and a coroutine that is running goes
\* on to its next suspension point.
SpecSessionFair ==
    /\ SpecSession
    /\ WF_vars(keepalive_tick(MaxRounds))
    /\ WF_vars(keepalive_after_probe)
    /\ WF_vars(\E t \in Tasks : read_line(t) /\ UNCHANGED ioVars)
    /\ WF_vars(\E t \in Users : return_call(t))

\* The same session where the scheduler runs every coroutine that can go
\* on, the lock goes to its waiter, the open of the command channel ends,
\* and the gateway ends each response with its status line.
SpecSendFair ==
    /\ SpecSession
    /\ WF_vars(keepalive_after_probe)
    /\ \A t \in Tasks :
          /\ WF_vars(return_call(t))
          /\ WF_vars(acquire_lock(t))
          /\ WF_vars(read_line(t) /\ UNCHANGED ioVars)
          /\ WF_vars(resume_read(t) /\ UNCHANGED ioVars)
          /\ WF_vars(\E ok \in BOOLEAN : open_command_connection(t, ok))
    /\ WF_vars(\E c \in ConnIds, l \in StatusLines \cap PollLines :
                  gateway_line(c, l) /\ UNCHANGED ioVars)
====
